---------------------------- MODULE Spec2Model ----------------------------
(***************************************************************************)
(* A model of the JSON5 codec of vayload-kit (src/src/encoding/json5):     *)
(* the byte-oriented parser, the Value model, the typed encode / decode    *)
(* adapters and the text emitters.                                         *)
(*                                                                         *)
(* Representation.                                                         *)
(*   - A text and a Rust String are sequences of bytes (0..255), as in the *)
(*     source (&[u8], UTF-8).  Parser positions are 0-based as in the      *)
(*     source; input[pos + 1] is the byte at position pos.                 *)
(*   - i64 / u64 values are sign + magnitude, the magnitude a canonical    *)
(*     big-endian sequence of decimal digits, so that the 64-bit limits    *)
(*     are the real ones.                                                  *)
(*   - A finite f64 is the decimal expansion that Rust's Display prints    *)
(*     for it (sign, integer digits, fraction digits); the model keeps to  *)
(*     literals of at most 15 significant digits, for which f64 parsing    *)
(*     and printing are exact inverses.                                    *)
(***************************************************************************)
EXTENDS Integers, Sequences, FiniteSets, TLC

VARIABLES
    mode,    \* which entry point the case exercises
    phase,   \* position of the case in its pipeline
    value,   \* the Value handed to the emitter
    text,    \* the text handed to parse_value
    parts,   \* how the text was put together (prefix, core, suffix)
    result,  \* the Result of the last parse_value / from_str
    text2,   \* the text of the re-encoded parse result
    typed,   \* the typed value (shape + data) handed to to_string
    other,   \* the second operand of a comparison
    overflow_checks, \* the build profile: integer overflow panics (debug) or wraps
    frames,  \* the activations of the emitter while it writes: write_value, write_array, ...
    serializer, \* the MapSerializer a caller drives: its map and its pending_key
    calls,   \* the calls made on the serializer, each with what it returned and left
    parser_pos  \* Parser.pos, the cursor of the parser while it runs step by step

vars == <<mode, phase, value, text, parts, result, text2, typed, other, overflow_checks,
          frames, serializer, calls, parser_pos>>

-----------------------------------------------------------------------------
(* Bytes *)

AsciiTable ==
    <<" ", "!", "\"", "#", "$", "%", "&", "'", "(", ")", "*", "+", ",", "-", ".", "/",
      "0", "1", "2", "3", "4", "5", "6", "7", "8", "9", ":", ";", "<", "=", ">", "?",
      "@", "A", "B", "C", "D", "E", "F", "G", "H", "I", "J", "K", "L", "M", "N", "O",
      "P", "Q", "R", "S", "T", "U", "V", "W", "X", "Y", "Z", "[", "\\", "]", "^", "_",
      "(96)", "a", "b", "c", "d", "e", "f", "g", "h", "i", "j", "k", "l", "m", "n", "o",
      "p", "q", "r", "s", "t", "u", "v", "w", "x", "y", "z", "{", "|", "}", "~">>

\* The byte of a one-character byte literal of the source.
Ch(c) ==
    CASE c = "\t" -> 9
      [] c = "\n" -> 10
      [] c = "\r" -> 13
      [] OTHER -> 31 + (CHOOSE i \in 1..Len(AsciiTable) : AsciiTable[i] = c)

\* The bytes of an ASCII text given character by character.
Bytes(s) == [i \in 1..Len(s) |-> Ch(s[i])]

None == 0 - 1

\* The element of a one-element set. The({ e : x \in {v} }) is e with x bound
\* to the value v, which is computed once: the way a let binding of the source
\* holds the result of a call.
The(S) == CHOOSE x \in S : TRUE

bSP == Ch(" ")
bTAB == Ch("\t")
bLF == Ch("\n")
bCR == Ch("\r")
bSLASH == Ch("/")
bSTAR == Ch("*")
bBACKSLASH == Ch("\\")
bDQUOTE == Ch("\"")
bSQUOTE == Ch("'")
bLBRACKET == Ch("[")
bRBRACKET == Ch("]")
bLBRACE == Ch("{")
bRBRACE == Ch("}")
bCOMMA == Ch(",")
bCOLON == Ch(":")
bMINUS == Ch("-")
bPLUS == Ch("+")
bDOT == Ch(".")
bUNDERSCORE == Ch("_")
bDOLLAR == Ch("$")
b0 == Ch("0")
b9 == Ch("9")

IsDigit(b) == b >= b0 /\ b <= b9
IsAsciiAlpha(b) == (b >= Ch("a") /\ b <= Ch("z")) \/ (b >= Ch("A") /\ b <= Ch("Z"))

\* input.get(a..b) == Some(lit)
SliceIs(input, a, lit) ==
    /\ a + Len(lit) <= Len(input)
    /\ \A i \in 1..Len(lit) : input[a + i] = lit[i]

-----------------------------------------------------------------------------
(* Results *)

Ok(v, p) == [ok |-> TRUE, val |-> v, pos |-> p]
Err(e) == [ok |-> FALSE, err |-> e]

UnexpectedChar(c, p) == [kind |-> "UnexpectedChar", ch |-> c, at |-> p]
UnexpectedEof == [kind |-> "UnexpectedEof"]
InvalidEscape(c) == [kind |-> "InvalidEscape", ch |-> c]
InvalidUnicode(cp) == [kind |-> "InvalidUnicode", cp |-> cp]
InvalidNumber(s) == [kind |-> "InvalidNumber", lit |-> s]
TrailingData(p) == [kind |-> "TrailingData", at |-> p]
Expected(b, c) == [kind |-> "Expected", want |-> b, got |-> c]
Custom(m) == [kind |-> "Custom", msg |-> m]
\* a panic of the thread, which no Result carries
Panic(m) == [kind |-> "panic", msg |-> m]
TypeMismatch(e, g) == [kind |-> "TypeMismatch", expected |-> e, got |-> g]

-----------------------------------------------------------------------------
(* Scanner *)

peek(input, pos) == IF pos < Len(input) THEN input[pos + 1] ELSE None
peek2(input, pos) == IF pos + 1 < Len(input) THEN input[pos + 2] ELSE None
remaining(input, pos) == Len(input) - pos

\* The inner while-let loop of skip_whitespace_and_comments.
RECURSIVE skip_whitespace(_, _)
skip_whitespace(input, pos) ==
    LET b == peek(input, pos) IN
    IF b = bSP \/ b = bTAB \/ b = bLF \/ b = bCR
    THEN skip_whitespace(input, pos + 1)
    ELSE IF b = 194
    THEN IF peek(input, pos + 1) = 160 THEN skip_whitespace(input, pos + 2) ELSE pos
    ELSE IF b = 226
    THEN LET b1 == peek(input, pos + 1)
             b2 == peek(input, pos + 2)
         IN IF b1 # None /\ b2 # None /\ b1 = 128
               /\ (b2 = 168 \/ b2 = 169 \/ (b2 >= 128 /\ b2 <= 175))
            THEN skip_whitespace(input, pos + 3)
            ELSE pos
    ELSE pos

\* The body of a // comment: up to LF, CR, U+2028 or U+2029.
RECURSIVE skip_line_comment(_, _)
skip_line_comment(input, pos) ==
    LET b == peek(input, pos) IN
    IF b = None \/ b = bLF \/ b = bCR THEN pos
    ELSE IF b = 226 /\ peek(input, pos + 1) = 128
            /\ (peek(input, pos + 2) = 168 \/ peek(input, pos + 2) = 169)
    THEN pos
    ELSE skip_line_comment(input, pos + 1)

\* The body of a /* comment: up to and over */, or to the end of the input.
RECURSIVE skip_block_comment(_, _)
skip_block_comment(input, pos) ==
    IF peek(input, pos) = bSTAR /\ peek2(input, pos) = bSLASH THEN pos + 2
    ELSE IF peek(input, pos) = None THEN pos
    ELSE skip_block_comment(input, pos + 1)

RECURSIVE skip_whitespace_and_comments(_, _)
skip_whitespace_and_comments(input, pos) ==
    LET p == skip_whitespace(input, pos) IN
    IF peek(input, p) = bSLASH /\ peek2(input, p) = bSLASH
    THEN skip_whitespace_and_comments(input, skip_line_comment(input, p + 2))
    ELSE IF peek(input, p) = bSLASH /\ peek2(input, p) = bSTAR
    THEN skip_whitespace_and_comments(input, skip_block_comment(input, p + 2))
    ELSE p

-----------------------------------------------------------------------------
(* UTF-8 and characters *)

\* char::from_u32(cp).is_some()
IsChar(cp) == cp >= 0 /\ cp <= 1114111 /\ ~(cp >= 55296 /\ cp <= 57343)

\* String::push(ch): the UTF-8 bytes of a code point.
Utf8Encode(cp) ==
    IF cp < 128 THEN <<cp>>
    ELSE IF cp < 2048 THEN <<192 + (cp \div 64), 128 + (cp % 64)>>
    ELSE IF cp < 65536
    THEN <<224 + (cp \div 4096), 128 + ((cp \div 64) % 64), 128 + (cp % 64)>>
    ELSE <<240 + (cp \div 262144), 128 + ((cp \div 4096) % 64),
           128 + ((cp \div 64) % 64), 128 + (cp % 64)>>

\* Parser::decode_utf8_char: Ok(code point, new pos) or an error.
decode_utf8_char(input, pos) ==
    LET c0 == peek(input, pos)
        c1 == peek(input, pos + 1)
        c2 == peek(input, pos + 2)
        c3 == peek(input, pos + 3)
        Char(cp, p) == IF IsChar(cp) THEN Ok(cp, p) ELSE Err(InvalidUnicode(cp))
    IN IF c0 = None THEN Err(UnexpectedEof)
       ELSE IF c0 < 128 THEN Ok(c0, pos + 1)
       ELSE IF c0 \div 32 = 6
       THEN IF c1 = None THEN Err(UnexpectedEof)
            ELSE Char((c0 % 32) * 64 + (c1 % 64), pos + 2)
       ELSE IF c0 \div 16 = 14
       THEN IF c1 = None \/ c2 = None THEN Err(UnexpectedEof)
            ELSE Char((c0 % 16) * 4096 + (c1 % 64) * 64 + (c2 % 64), pos + 3)
       ELSE IF c1 = None \/ c2 = None \/ c3 = None THEN Err(UnexpectedEof)
            ELSE Char((c0 % 8) * 262144 + (c1 % 64) * 4096 + (c2 % 64) * 64 + (c3 % 64),
                      pos + 4)

\* str::chars(): the code points of a (valid UTF-8) String.
RECURSIVE Chars(_)
Chars(s) ==
    IF s = <<>> THEN <<>>
    ELSE LET r == decode_utf8_char(s, 0)
         IN <<r.val>> \o Chars(SubSeq(s, r.pos + 1, Len(s)))

hex_val(b) ==
    IF IsDigit(b) THEN b - b0
    ELSE IF b >= Ch("a") /\ b <= Ch("f") THEN b - Ch("a") + 10
    ELSE IF b >= Ch("A") /\ b <= Ch("F") THEN b - Ch("A") + 10
    ELSE None

\* A sample of the code points outside ASCII for which char::is_alphabetic holds
\* (the Unicode tables of the standard library): e-acute, CJK U+4E2D, Greek alpha.
AlphabeticSample == {233, 20013, 945}

\* A sample of the code points outside ASCII for which char::is_numeric holds:
\* Arabic-Indic digit one.
NumericSample == {1633}

is_id_start(b) == IsAsciiAlpha(b) \/ b = bUNDERSCORE \/ b = bDOLLAR

is_id_start_char(c) ==
    IsAsciiAlpha(c) \/ c \in AlphabeticSample \/ c = bUNDERSCORE \/ c = bDOLLAR

is_id_continue(b) == IsAsciiAlpha(b) \/ IsDigit(b) \/ b = bUNDERSCORE \/ b = bDOLLAR

is_id_continue_char(c) ==
    \/ IsAsciiAlpha(c) \/ IsDigit(c) \/ c \in AlphabeticSample \/ c \in NumericSample
    \/ c = bUNDERSCORE \/ c = bDOLLAR \/ c = 8204 \/ c = 8205

-----------------------------------------------------------------------------
(* Strings *)

\* for _ in 0..4 { eat; hex_val; cp = (cp << 4) | d }: Ok(cp, new pos) or an error.
RECURSIVE eat_hex4(_, _, _, _)
eat_hex4(input, pos, cp, n) ==
    IF n = 0 THEN Ok(cp, pos)
    ELSE LET b == peek(input, pos) IN
         IF b = None THEN Err(UnexpectedEof)
         ELSE IF hex_val(b) = None THEN Err(InvalidEscape(Ch("u")))
         ELSE eat_hex4(input, pos + 1, cp * 16 + hex_val(b), n - 1)

\* The loop of the \u{...} form.
RECURSIVE braced_unicode(_, _, _, _)
braced_unicode(input, pos, cp, digits) ==
    LET b == peek(input, pos) IN
    IF b = bRBRACE
    THEN IF IsChar(cp) THEN Ok(cp, pos + 1) ELSE Err(InvalidUnicode(cp))
    ELSE IF b = None THEN Err(UnexpectedEof)
    ELSE IF hex_val(b) = None THEN Err(InvalidEscape(Ch("u")))
    ELSE IF digits + 1 > 6 THEN Err(InvalidUnicode(cp * 16 + hex_val(b)))
    ELSE braced_unicode(input, pos + 1, cp * 16 + hex_val(b), digits + 1)

\* parse_unicode_escape that takes any \uXXXX after a high surrogate for the low one
parse_unicode_escape_AnyLow(input, pos) ==
    IF peek(input, pos) = bLBRACE THEN braced_unicode(input, pos + 1, 0, 0)
    ELSE The({
         IF ~hi.ok THEN hi
         ELSE IF hi.val >= 55296 /\ hi.val <= 56319
                 /\ peek(input, hi.pos) = bBACKSLASH /\ peek2(input, hi.pos) = Ch("u")
         THEN The({
              IF ~lo.ok THEN lo
              ELSE LET full == 65536 + (hi.val - 55296) * 1024 + (lo.val - 56320)
                   IN IF IsChar(full) THEN Ok(full, lo.pos) ELSE Err(InvalidUnicode(full))
              : lo \in {eat_hex4(input, hi.pos + 2, 0, 4)} })
         ELSE IF IsChar(hi.val) THEN hi ELSE Err(InvalidUnicode(hi.val))
         : hi \in {eat_hex4(input, pos, 0, 4)} })

parse_unicode_escape(input, pos) ==
    IF peek(input, pos) = bLBRACE THEN braced_unicode(input, pos + 1, 0, 0)
    ELSE The({
         IF ~hi.ok THEN hi
         ELSE IF hi.val >= 55296 /\ hi.val <= 56319
                 /\ peek(input, hi.pos) = bBACKSLASH /\ peek2(input, hi.pos) = Ch("u")
         THEN The({
              IF ~lo.ok THEN lo
              ELSE IF ~(lo.val >= 56320 /\ lo.val <= 57343)
              THEN Err(InvalidUnicode(lo.val))
              ELSE LET full == 65536 + (hi.val - 55296) * 1024 + (lo.val - 56320)
                   IN IF IsChar(full) THEN Ok(full, lo.pos) ELSE Err(InvalidUnicode(full))
              : lo \in {eat_hex4(input, hi.pos + 2, 0, 4)} })
         ELSE IF IsChar(hi.val) THEN hi ELSE Err(InvalidUnicode(hi.val))
         : hi \in {eat_hex4(input, pos, 0, 4)} })

eat_hex_digit(input, pos) ==
    LET b == peek(input, pos) IN
    IF b = None THEN Err(UnexpectedEof)
    ELSE IF hex_val(b) = None THEN Err(InvalidEscape(Ch("x")))
    ELSE Ok(hex_val(b), pos + 1)

\* parse_escape that takes an unknown escape for the character itself
parse_escape_Lenient(input, pos, out) ==
    LET b == peek(input, pos)
        Push(c) == Ok(out \o Utf8Encode(c), pos + 1)
    IN IF b = None THEN Err(UnexpectedEof)
       ELSE IF b = bDQUOTE \/ b = bSQUOTE \/ b = bBACKSLASH \/ b = bSLASH THEN Push(b)
       ELSE IF b = Ch("b") THEN Push(8)
       ELSE IF b = Ch("f") THEN Push(12)
       ELSE IF b = Ch("n") THEN Push(10)
       ELSE IF b = Ch("r") THEN Push(13)
       ELSE IF b = Ch("t") THEN Push(9)
       ELSE IF b = Ch("v") THEN Push(11)
       ELSE IF b = b0
       THEN IF peek(input, pos + 1) >= Ch("1") /\ peek(input, pos + 1) <= b9
            THEN Err(InvalidEscape(b0))
            ELSE Push(0)
       ELSE IF b = Ch("u")
       THEN The({ IF r.ok THEN Ok(out \o Utf8Encode(r.val), r.pos) ELSE r
                  : r \in {parse_unicode_escape(input, pos + 1)} })
       ELSE IF b = Ch("x")
       THEN The({
            IF ~hi.ok THEN hi
            ELSE The({ IF ~lo.ok THEN lo
                       ELSE Ok(out \o Utf8Encode(hi.val * 16 + lo.val), lo.pos)
                       : lo \in {eat_hex_digit(input, hi.pos)} })
            : hi \in {eat_hex_digit(input, pos + 1)} })
       ELSE IF b = bLF THEN Ok(out, pos + 1)
       ELSE IF b = bCR
       THEN IF peek(input, pos + 1) = bLF THEN Ok(out, pos + 2) ELSE Ok(out, pos + 1)
       ELSE Push(b)

\* Parser::parse_escape, called with pos after the backslash: Ok(out', new pos).
parse_escape(input, pos, out) ==
    LET b == peek(input, pos)
        Push(c) == Ok(out \o Utf8Encode(c), pos + 1)
    IN IF b = None THEN Err(UnexpectedEof)
       ELSE IF b = bDQUOTE \/ b = bSQUOTE \/ b = bBACKSLASH \/ b = bSLASH THEN Push(b)
       ELSE IF b = Ch("b") THEN Push(8)
       ELSE IF b = Ch("f") THEN Push(12)
       ELSE IF b = Ch("n") THEN Push(10)
       ELSE IF b = Ch("r") THEN Push(13)
       ELSE IF b = Ch("t") THEN Push(9)
       ELSE IF b = Ch("v") THEN Push(11)
       ELSE IF b = b0
       THEN IF peek(input, pos + 1) >= Ch("1") /\ peek(input, pos + 1) <= b9
            THEN Err(InvalidEscape(b0))
            ELSE Push(0)
       ELSE IF b = Ch("u")
       THEN The({ IF r.ok THEN Ok(out \o Utf8Encode(r.val), r.pos) ELSE r
                  : r \in {parse_unicode_escape(input, pos + 1)} })
       ELSE IF b = Ch("x")
       THEN The({
            IF ~hi.ok THEN hi
            ELSE The({ IF ~lo.ok THEN lo
                       ELSE Ok(out \o Utf8Encode(hi.val * 16 + lo.val), lo.pos)
                       : lo \in {eat_hex_digit(input, hi.pos)} })
            : hi \in {eat_hex_digit(input, pos + 1)} })
       ELSE IF b = bLF THEN Ok(out, pos + 1)
       ELSE IF b = bCR
       THEN IF peek(input, pos + 1) = bLF THEN Ok(out, pos + 2) ELSE Ok(out, pos + 1)
       ELSE Err(InvalidEscape(b))

\* The slow path of parse_string_contents: rebuild with escapes resolved.
RECURSIVE string_slow_path(_, _, _, _)
string_slow_path(input, pos, quote, out) ==
    LET b == peek(input, pos) IN
    IF b = None THEN Err(UnexpectedEof)
    ELSE IF b = quote THEN Ok(out, pos + 1)
    ELSE IF b = bBACKSLASH
    THEN The({ IF r.ok THEN string_slow_path(input, r.pos, quote, r.val) ELSE r
               : r \in {parse_escape(input, pos + 1, out)} })
    ELSE The({
         IF ~r.ok THEN r
         ELSE IF r.val = bLF \/ r.val = bCR THEN Err(UnexpectedChar(r.val, r.pos))
         ELSE string_slow_path(input, r.pos, quote, out \o Utf8Encode(r.val))
         : r \in {decode_utf8_char(input, pos)} })

RECURSIVE string_fast_path(_, _, _, _, _)
\* string_fast_path that lets a raw line terminator stand between single quotes
string_fast_path_Lenient(input, start, pos, quote, has_escape) ==
    LET b == peek(input, pos) IN
    IF b = None THEN Err(UnexpectedEof)
    ELSE IF b = quote
    THEN IF ~has_escape
         THEN Ok(SubSeq(input, start + 1, pos), pos + 1)
         ELSE string_slow_path(input, start, quote, <<>>)
    ELSE IF b = bBACKSLASH THEN string_fast_path(input, start, pos + 2, quote, TRUE)
    ELSE IF (b = bLF \/ b = bCR) /\ quote # bSQUOTE THEN Err(UnexpectedChar(bLF, pos))
    ELSE IF b < 32 /\ b # bLF /\ b # bCR THEN Err(UnexpectedChar(b, pos))
    ELSE string_fast_path(input, start, pos + 1, quote, has_escape)

\* The fast path of parse_string_contents: scan for the closing quote.
string_fast_path(input, start, pos, quote, has_escape) ==
    LET b == peek(input, pos) IN
    IF b = None THEN Err(UnexpectedEof)
    ELSE IF b = quote
    THEN IF ~has_escape
         THEN Ok(SubSeq(input, start + 1, pos), pos + 1)
         ELSE string_slow_path(input, start, quote, <<>>)
    ELSE IF b = bBACKSLASH THEN string_fast_path(input, start, pos + 2, quote, TRUE)
    ELSE IF (b = bLF \/ b = bCR) /\ quote # bSQUOTE THEN Err(UnexpectedChar(bLF, pos))
    ELSE IF b < 32 THEN Err(UnexpectedChar(b, pos))
    ELSE string_fast_path(input, start, pos + 1, quote, has_escape)

parse_string_contents(input, pos, quote) == string_fast_path(input, pos, pos, quote, FALSE)

\* Parser::parse_string: Ok(String, new pos) or an error.
parse_string(input, pos) ==
    IF peek(input, pos) = None THEN Err(UnexpectedEof)
    ELSE parse_string_contents(input, pos + 1, peek(input, pos))

-----------------------------------------------------------------------------
(* Integers of 64 bits, as decimal digit sequences (most significant first) *)

RECURSIVE StripZeros(_)
StripZeros(d) ==
    IF Len(d) > 1 /\ d[1] = 0 THEN StripZeros(Tail(d))
    ELSE IF d = <<>> THEN <<0>> ELSE d

RECURSIVE LexLe(_, _)
LexLe(a, b) ==
    IF a = <<>> THEN TRUE
    ELSE IF a[1] # b[1] THEN a[1] < b[1]
    ELSE LexLe(Tail(a), Tail(b))

\* a <= b, for canonical digit sequences
BigLe(a, b) == Len(a) < Len(b) \/ (Len(a) = Len(b) /\ LexLe(a, b))

\* a * m + c for canonical a, 0 <= c < m <= 16
RECURSIVE MulAddRev(_, _, _)
MulAddRev(a, m, c) ==
    \* a, least significant digit last; returns the digits of a * m + c
    IF a = <<>> THEN (IF c = 0 THEN <<>> ELSE IF c < 10 THEN <<c>> ELSE <<c \div 10, c % 10>>)
    ELSE The({ Append(MulAddRev(init, m, t \div 10), t % 10)
               : init \in {SubSeq(a, 1, Len(a) - 1)}, t \in {a[Len(a)] * m + c} })

BigMulAdd(a, m, c) == StripZeros(MulAddRev(a, m, c))

\* a - b for canonical a >= b
RECURSIVE SubRev(_, _, _)
SubRev(a, b, borrow) ==
    IF a = <<>> THEN <<>>
    ELSE The({ Append(SubRev(arest, brest, IF t < 0 THEN 1 ELSE 0),
                      IF t < 0 THEN t + 10 ELSE t)
               : arest \in {SubSeq(a, 1, Len(a) - 1)},
                 brest \in {IF b = <<>> THEN <<>> ELSE SubSeq(b, 1, Len(b) - 1)},
                 t \in {a[Len(a)] - (IF b = <<>> THEN 0 ELSE b[Len(b)]) - borrow} })

BigSub(a, b) == StripZeros(SubRev(a, b, 0))

I64Max == <<9, 2, 2, 3, 3, 7, 2, 0, 3, 6, 8, 5, 4, 7, 7, 5, 8, 0, 7>>
I64MinMag == <<9, 2, 2, 3, 3, 7, 2, 0, 3, 6, 8, 5, 4, 7, 7, 5, 8, 0, 8>>
U64Max == <<1, 8, 4, 4, 6, 7, 4, 4, 0, 7, 3, 7, 0, 9, 5, 5, 1, 6, 1, 5>>
TwoPow64 == <<1, 8, 4, 4, 6, 7, 4, 4, 0, 7, 3, 7, 0, 9, 5, 5, 1, 6, 1, 6>>

-----------------------------------------------------------------------------
(* Number and Value *)

Number_Int(neg, mag) == [k |-> "Int", neg |-> neg /\ mag # <<0>>, mag |-> mag]
Number_Uint(mag) == [k |-> "Uint", mag |-> mag]
Number_Float(f) == [k |-> "Float", f |-> f]
Number_NaN == [k |-> "NaN"]
Number_Infinity == [k |-> "Infinity"]
Number_NegInfinity == [k |-> "NegInfinity"]

\* f64 values
Fin(neg, int, frac) == [c |-> "fin", neg |-> neg, int |-> int, frac |-> frac]
FNaN == [c |-> "nan"]
FInf(neg) == [c |-> "inf", neg |-> neg]

Null == [t |-> "Null"]
Bool(b) == [t |-> "Bool", b |-> b]
Number(n) == [t |-> "Number", n |-> n]
String(s) == [t |-> "String", s |-> s]
Array(a) == [t |-> "Array", a |-> a]
\* an Object holds its entries as a sequence of <<key, value>> in insertion order
Object(m) == [t |-> "Object", m |-> m]

\* IndexMap::get_index_of
MapIndexOf(m, k) ==
    IF \E i \in 1..Len(m) : m[i][1] = k
    THEN CHOOSE i \in 1..Len(m) : m[i][1] = k
    ELSE 0

\* IndexMap::insert: a new key is appended; an existing key keeps its place
\* and gets the new value.
\* MapInsert that moves a key that is written again to the end
MapInsert_MoveToEnd(m, k, v) ==
    Append(SelectSeq(m, LAMBDA e : e[1] # k), <<k, v>>)

MapInsert(m, k, v) ==
    IF MapIndexOf(m, k) = 0 THEN Append(m, <<k, v>>)
    ELSE [m EXCEPT ![MapIndexOf(m, k)] = <<k, v>>]

-----------------------------------------------------------------------------
(* Numbers: text to value *)

RECURSIVE DigitsEnd(_, _)
\* the index after the run of decimal digits of s that starts at index i
DigitsEnd(s, i) == IF i <= Len(s) /\ IsDigit(s[i]) THEN DigitsEnd(s, i + 1) ELSE i

DigitVals(s) == [i \in 1..Len(s) |-> s[i] - b0]

RECURSIVE StripTrailingZeros(_)
StripTrailingZeros(d) ==
    IF d # <<>> /\ d[Len(d)] = 0 THEN StripTrailingZeros(SubSeq(d, 1, Len(d) - 1)) ELSE d

Zeros(n) == [i \in 1..n |-> 0]

\* a small decimal integer from its digits (exponents)
RECURSIVE SmallInt(_)
SmallInt(d) == IF d = <<>> THEN 0 ELSE SmallInt(SubSeq(d, 1, Len(d) - 1)) * 10 + d[Len(d)]

\* The f64 with mantissa digits (int ++ frac) * 10^e10.
Decimal(neg, int, frac, e10) ==
    LET m == int \o frac
        point == Len(int) + e10     \* digits of m before the decimal point
        lead == Len(StripZeros(m)) - Len(frac) + e10   \* decimal magnitude
        isZero == StripZeros(m) = <<0>>
    IN IF isZero THEN Fin(neg, <<0>>, <<>>)
       \* beyond the range of f64 the parse rounds to infinity or to zero
       ELSE IF lead > 309 THEN FInf(neg)
       ELSE IF lead < 0 - 323 THEN Fin(neg, <<0>>, <<>>)
       ELSE IF point >= Len(m) THEN Fin(neg, StripZeros(m \o Zeros(point - Len(m))), <<>>)
       ELSE IF point <= 0 THEN Fin(neg, <<0>>, StripTrailingZeros(Zeros(0 - point) \o m))
       ELSE Fin(neg, StripZeros(SubSeq(m, 1, point)),
                StripTrailingZeros(SubSeq(m, point + 1, Len(m))))

\* the parts of a float text s: the sign ends before index SignEnd, the integer
\* digits end before i1, the fraction starts at FracStart and ends before f1,
\* the exponent digits start at ExpStart and end before e1
SignEnd(s) == IF s # <<>> /\ (s[1] = bMINUS \/ s[1] = bPLUS) THEN 2 ELSE 1
FracStart(s, i1) == IF i1 <= Len(s) /\ s[i1] = bDOT THEN i1 + 1 ELSE i1
HasExpAt(s, f1) == f1 <= Len(s) /\ (s[f1] = Ch("e") \/ s[f1] = Ch("E"))
ExpStart(s, f1) ==
    IF HasExpAt(s, f1) /\ f1 + 1 <= Len(s) /\ (s[f1 + 1] = bMINUS \/ s[f1 + 1] = bPLUS)
    THEN f1 + 2 ELSE f1 + 1

\* 10^e10 of a float text whose exponent digits are s[ExpStart .. e1 - 1]
ExpValue(s, f1, e1) ==
    LET expDigits == IF HasExpAt(s, f1)
                     THEN StripZeros(DigitVals(SubSeq(s, ExpStart(s, f1), e1 - 1)))
                     ELSE <<0>>
        expMag == IF Len(expDigits) > 4 THEN 9999 ELSE SmallInt(expDigits)
    IN IF HasExpAt(s, f1) /\ f1 + 1 <= Len(s) /\ s[f1 + 1] = bMINUS
       THEN 0 - expMag ELSE expMag

F64FromParts(s, i1, f1, e1) ==
    IF (i1 - SignEnd(s)) + (f1 - FracStart(s, i1)) = 0 THEN Err(InvalidNumber(s))
    ELSE IF HasExpAt(s, f1) /\ e1 = ExpStart(s, f1) THEN Err(InvalidNumber(s))
    ELSE IF e1 # Len(s) + 1 THEN Err(InvalidNumber(s))
    ELSE Ok(Decimal(s[1] = bMINUS,
                    DigitVals(SubSeq(s, SignEnd(s), i1 - 1)),
                    DigitVals(SubSeq(s, FracStart(s, i1), f1 - 1)),
                    ExpValue(s, f1, e1)), 0)

\* str::parse::<f64> on a text of sign, digits, '.', 'e': Ok(f64, 0) or Err.
F64Parse(s) ==
    The({
    The({
    The({
        F64FromParts(s, i1, f1, e1)
        : e1 \in {IF HasExpAt(s, f1) THEN DigitsEnd(s, ExpStart(s, f1)) ELSE f1} })
        : f1 \in {DigitsEnd(s, FracStart(s, i1))} })
        : i1 \in {DigitsEnd(s, SignEnd(s))} })

\* str::parse::<u64>: optional '+', at least one digit, at most u64::MAX.
U64Parse(s) ==
    LET i0 == IF s # <<>> /\ s[1] = bPLUS THEN 2 ELSE 1
        d == StripZeros(DigitVals(SubSeq(s, i0, Len(s))))
    IN IF i0 > Len(s) \/ DigitsEnd(s, i0) # Len(s) + 1 THEN Err(InvalidNumber(s))
       ELSE IF ~BigLe(d, U64Max) THEN Err(InvalidNumber(s))
       ELSE Ok(d, 0)

\* str::parse::<i64>: optional sign, at least one digit, within i64::MIN..=i64::MAX.
I64Parse(s) ==
    LET neg == s # <<>> /\ s[1] = bMINUS
        i0 == IF s # <<>> /\ (s[1] = bPLUS \/ s[1] = bMINUS) THEN 2 ELSE 1
        d == StripZeros(DigitVals(SubSeq(s, i0, Len(s))))
    IN IF i0 > Len(s) \/ DigitsEnd(s, i0) # Len(s) + 1 THEN Err(InvalidNumber(s))
       ELSE IF ~BigLe(d, IF neg THEN I64MinMag ELSE I64Max) THEN Err(InvalidNumber(s))
       ELSE Ok(Number_Int(neg, d), 0)

\* u64::from_str_radix(s, 16) on hex digits: Ok(n, 0) or Err.
RECURSIVE HexFold(_, _)
HexFold(s, acc) ==
    IF s = <<>> THEN acc
    ELSE The({ HexFold(Tail(s), a) : a \in {BigMulAdd(acc, 16, hex_val(s[1]))} })

U64FromHex(s) ==
    LET sig == StripZeros([i \in 1..Len(s) |-> hex_val(s[i])])
    IN IF s = <<>> THEN Err(InvalidNumber(s))
       ELSE IF Len(sig) > 16 THEN Err(InvalidNumber(s))
       ELSE Ok(HexFold(s, <<0>>), 0)

-----------------------------------------------------------------------------
(* Parser: numbers *)

\* while matches!(self.peek(), hex digit or '_') { self.advance() }
RECURSIVE SkipHexDigits(_, _)
SkipHexDigits(input, pos) ==
    IF peek(input, pos) # None
       /\ (hex_val(peek(input, pos)) # None \/ peek(input, pos) = bUNDERSCORE)
    THEN SkipHexDigits(input, pos + 1) ELSE pos

\* while matches!(self.peek(), decimal digit or '_') { self.advance() }
RECURSIVE SkipDigits(_, _)
SkipDigits(input, pos) ==
    IF IsDigit(peek(input, pos)) \/ peek(input, pos) = bUNDERSCORE
    THEN SkipDigits(input, pos + 1) ELSE pos

\* raw.iter().filter(|&&b| b != b'_')
StripUnderscores(raw) == SelectSeq(raw, LAMBDA b : b # bUNDERSCORE)

\* -(n as i64) for a u64 n
NegateAsI64(n) ==
    IF BigLe(n, I64Max) THEN Ok(Number_Int(TRUE, n), 0)
    ELSE LET m == BigSub(TwoPow64, n)    \* n as i64 is -m
         IN IF m = I64MinMag
            THEN IF overflow_checks THEN Err(Panic("attempt to negate with overflow"))
                 ELSE Ok(Number_Int(TRUE, m), 0)
            ELSE Ok(Number_Int(FALSE, m), 0)

\* the hexadecimal branch of parse_number, pos after the 0x
parse_hex(input, pos, negative) ==
    The({
    The({
        IF ~n.ok THEN n
        ELSE IF negative
        THEN The({ IF i.ok THEN Ok(Number(i.val), hex_end) ELSE i
                   : i \in {NegateAsI64(n.val)} })
        ELSE Ok(Number(Number_Uint(n.val)), hex_end)
        : n \in {U64FromHex(StripUnderscores(SubSeq(input, pos + 1, hex_end)))} })
        : hex_end \in {SkipHexDigits(input, pos)} })

\* decimal_value without the Uint case: what does not fit i64 becomes a Float
decimal_value_NoUint(s, end, is_float, negative) ==
    IF is_float
    THEN The({ IF f.ok THEN Ok(Number(Number_Float(f.val)), end) ELSE f
               : f \in {F64Parse(s)} })
    ELSE IF negative
    THEN The({ IF i.ok THEN Ok(Number(i.val), end) ELSE i : i \in {I64Parse(s)} })
    ELSE The({ IF u.ok /\ BigLe(u.val, I64Max)
               THEN Ok(Number(Number_Int(FALSE, u.val)), end)
               ELSE The({ IF f.ok THEN Ok(Number(Number_Float(f.val)), end) ELSE f
                          : f \in {F64Parse(s)} })
               : u \in {U64Parse(s)} })

\* the end of parse_number: the Number that the text s of the literal denotes
\* (if is_float / else if negative / else match s.parse::<u64>())
decimal_value(s, end, is_float, negative) ==
    IF is_float
    THEN The({ IF f.ok THEN Ok(Number(Number_Float(f.val)), end) ELSE f
               : f \in {F64Parse(s)} })
    ELSE IF negative
    THEN The({ IF i.ok THEN Ok(Number(i.val), end) ELSE i : i \in {I64Parse(s)} })
    ELSE The({ IF u.ok
               THEN IF BigLe(u.val, I64Max) THEN Ok(Number(Number_Int(FALSE, u.val)), end)
                    ELSE Ok(Number(Number_Uint(u.val)), end)
               ELSE The({ IF f.ok THEN Ok(Number(Number_Float(f.val)), end) ELSE f
                          : f \in {F64Parse(s)} })
               : u \in {U64Parse(s)} })

\* the position after the exponent that starts at pos, or pos when none starts there
skip_exponent(input, pos) ==
    IF peek(input, pos) = Ch("e") \/ peek(input, pos) = Ch("E")
    THEN IF peek(input, pos + 1) = bPLUS \/ peek(input, pos + 1) = bMINUS
         THEN SkipDigits(input, pos + 2)
         ELSE SkipDigits(input, pos + 1)
    ELSE pos

\* the decimal branch of parse_number, pos after the sign: the integer part
\* (int_end), the fractional part (frac_end), the exponent (end), the value;
\* is_float is set when a dot or an exponent was read
parse_decimal(input, start, pos, negative) ==
    The({
    The({
    The({
        decimal_value(StripUnderscores(SubSeq(input, start + 1, end)), end,
                      frac_end > int_end \/ end > frac_end, negative)
        : end \in {skip_exponent(input, frac_end)} })
        : frac_end \in {IF peek(input, int_end) = bDOT THEN SkipDigits(input, int_end + 1)
                        ELSE int_end} })
        : int_end \in {IF peek(input, pos) = b0 THEN pos + 1 ELSE SkipDigits(input, pos)} })

parse_number(input, pos) ==
    LET negative == peek(input, pos) = bMINUS
        p == IF negative \/ peek(input, pos) = bPLUS THEN pos + 1 ELSE pos
    IN IF peek(input, p) = b0 /\ (peek2(input, p) = Ch("x") \/ peek2(input, p) = Ch("X"))
       THEN parse_hex(input, p + 2, negative)
       ELSE parse_decimal(input, pos, p, negative)

-----------------------------------------------------------------------------
(* Parser: keys *)

RECURSIVE identifier_loop(_, _, _)
identifier_loop(input, pos, s) ==
    LET b == peek(input, pos) IN
    IF b = None THEN Ok(s, pos)
    ELSE IF is_id_continue(b) THEN identifier_loop(input, pos + 1, Append(s, b))
    ELSE IF b >= 128
    THEN LET r == decode_utf8_char(input, pos) IN
         IF ~r.ok THEN r
         ELSE IF is_id_continue_char(r.val)
         THEN identifier_loop(input, r.pos, s \o Utf8Encode(r.val))
         ELSE Ok(s, r.pos - Len(Utf8Encode(r.val)))
    ELSE Ok(s, pos)

\* parse_identifier that takes any first code point
parse_identifier_AnyStart(input, pos) ==
    LET r == decode_utf8_char(input, pos) IN
    IF ~r.ok THEN r
    ELSE identifier_loop(input, r.pos, Utf8Encode(r.val))

parse_identifier(input, pos) ==
    LET r == decode_utf8_char(input, pos) IN
    IF ~r.ok THEN r
    ELSE IF ~is_id_start_char(r.val) THEN Err(UnexpectedChar(r.val, r.pos))
    ELSE identifier_loop(input, r.pos, Utf8Encode(r.val))

parse_key(input, pos) ==
    LET b == peek(input, pos) IN
    IF b = bDQUOTE \/ b = bSQUOTE THEN parse_string(input, pos)
    ELSE IF b = None THEN Err(UnexpectedEof)
    ELSE IF is_id_start(b) THEN parse_identifier(input, pos)
    ELSE IF b >= 128 THEN parse_identifier(input, pos)
    ELSE Err(UnexpectedChar(b, pos))

-----------------------------------------------------------------------------
(* Parser: values *)

expect(input, pos, b) ==
    IF peek(input, pos) = b THEN Ok(b, pos + 1)
    ELSE IF peek(input, pos) = None THEN Err(UnexpectedEof)
    ELSE Err(Expected(b, peek(input, pos)))

parse_null(input, pos) ==
    IF SliceIs(input, pos, Bytes(<<"n", "u", "l", "l">>)) THEN Ok(Null, pos + 4)
    ELSE Err(UnexpectedChar(Ch("n"), pos))

parse_bool(input, pos) ==
    IF SliceIs(input, pos, Bytes(<<"t", "r", "u", "e">>)) THEN Ok(Bool(TRUE), pos + 4)
    ELSE IF SliceIs(input, pos, Bytes(<<"f", "a", "l", "s", "e">>))
    THEN Ok(Bool(FALSE), pos + 5)
    ELSE Err(UnexpectedChar(peek(input, pos), pos))

parse_string_value(input, pos) ==
    The({ IF r.ok THEN Ok(String(r.val), r.pos) ELSE r : r \in {parse_string(input, pos)} })

bytesInfinity == Bytes(<<"I", "n", "f", "i", "n", "i", "t", "y">>)
bytesNaN == Bytes(<<"N", "a", "N">>)

RECURSIVE Parser_parse_value(_, _), parse_array(_, _), parse_object(_, _)
RECURSIVE array_loop(_, _, _), object_loop(_, _, _)

\* Parser::parse_value after skip_whitespace_and_comments: the match on peek()
value_at(input, pos) ==
    LET b == peek(input, pos)
    IN IF b = None THEN Err(UnexpectedEof)
       ELSE IF b = Ch("n") THEN parse_null(input, pos)
       ELSE IF b = Ch("t") \/ b = Ch("f") THEN parse_bool(input, pos)
       ELSE IF b = bDQUOTE \/ b = bSQUOTE THEN parse_string_value(input, pos)
       ELSE IF b = bLBRACKET THEN parse_array(input, pos)
       ELSE IF b = bLBRACE THEN parse_object(input, pos)
       ELSE IF b = bMINUS
       THEN IF SliceIs(input, pos + 1, bytesInfinity)
            THEN Ok(Number(Number_NegInfinity), pos + 9)
            ELSE parse_number(input, pos)
       ELSE IF b = bPLUS
       THEN IF SliceIs(input, pos + 1, bytesInfinity)
            THEN Ok(Number(Number_Infinity), pos + 9)
            ELSE parse_number(input, pos)
       ELSE IF b = Ch("I")
       THEN IF SliceIs(input, pos, bytesInfinity) THEN Ok(Number(Number_Infinity), pos + 8)
            ELSE Err(UnexpectedChar(b, pos))
       ELSE IF b = Ch("N")
       THEN IF SliceIs(input, pos, bytesNaN) THEN Ok(Number(Number_NaN), pos + 3)
            ELSE Err(UnexpectedChar(b, pos))
       ELSE IF IsDigit(b) \/ b = bDOT THEN parse_number(input, pos)
       ELSE Err(UnexpectedChar(b, pos))

\* Parser::parse_value: Ok(Value, new pos) or an error.
Parser_parse_value(input, pos0) ==
    The({ value_at(input, pos) : pos \in {skip_whitespace_and_comments(input, pos0)} })

\* what follows an element v of an array that ends at the end of the input
array_next_Lenient(input, p, arr, v) ==
    LET c == peek(input, p)
    IN IF c = bCOMMA THEN array_loop(input, p + 1, Append(arr, v.val))
       ELSE IF c = bRBRACKET \/ c = None THEN array_loop(input, p, Append(arr, v.val))
       ELSE Err(UnexpectedChar(c, p))

\* array_loop that takes the end of the input for the closing bracket
array_loop_Lenient(input, pos0, arr) ==
    The({
        IF peek(input, pos) = None THEN Ok(Array(arr), pos)
        ELSE IF peek(input, pos) = bRBRACKET THEN Ok(Array(arr), pos + 1)
        ELSE The({
             IF ~v.ok THEN v
             ELSE The({ array_next_Lenient(input, p, arr, v)
                        : p \in {skip_whitespace_and_comments(input, v.pos)} })
             : v \in {Parser_parse_value(input, pos)} })
        : pos \in {skip_whitespace_and_comments(input, pos0)} })

\* what follows an element v of an array: the match on peek() after it
array_next(input, p, arr, v) ==
    LET c == peek(input, p)
    IN IF c = bCOMMA THEN array_loop(input, p + 1, Append(arr, v.val))
       ELSE IF c = bRBRACKET THEN array_loop(input, p, Append(arr, v.val))
       ELSE IF c = None THEN Err(UnexpectedEof)
       ELSE Err(UnexpectedChar(c, p))

\* the loop of Parser::parse_array, pos after the [ or after the last element
array_loop(input, pos0, arr) ==
    The({
        IF peek(input, pos) = None THEN Err(UnexpectedEof)
        ELSE IF peek(input, pos) = bRBRACKET THEN Ok(Array(arr), pos + 1)
        ELSE The({
             IF ~v.ok THEN v
             ELSE The({ array_next(input, p, arr, v)
                        : p \in {skip_whitespace_and_comments(input, v.pos)} })
             : v \in {Parser_parse_value(input, pos)} })
        : pos \in {skip_whitespace_and_comments(input, pos0)} })

\* object_next that takes the next entry without a comma before it
object_next_NoComma(input, p, map, key, v) ==
    LET c == peek(input, p)
    IN IF c = bCOMMA THEN object_loop(input, p + 1, MapInsert(map, key.val, v.val))
       ELSE IF c = None THEN Err(UnexpectedEof)
       ELSE object_loop(input, p, MapInsert(map, key.val, v.val))

\* what follows an entry of an object: map.insert(key, value), the match on peek()
object_next(input, p, map, key, v) ==
    LET c == peek(input, p)
    IN IF c = bCOMMA THEN object_loop(input, p + 1, MapInsert(map, key.val, v.val))
       ELSE IF c = bRBRACE THEN object_loop(input, p, MapInsert(map, key.val, v.val))
       ELSE IF c = None THEN Err(UnexpectedEof)
       ELSE Err(UnexpectedChar(c, p))

\* the loop of Parser::parse_object, pos after the { or after the last entry
object_loop(input, pos0, map) ==
    The({
        IF peek(input, pos) = None THEN Err(UnexpectedEof)
        ELSE IF peek(input, pos) = bRBRACE THEN Ok(Object(map), pos + 1)
        ELSE The({
             IF ~key.ok THEN key
             ELSE The({
                  IF ~colon.ok THEN colon
                  ELSE The({
                       IF ~v.ok THEN v
                       ELSE The({ object_next(input, p, map, key, v)
                                  : p \in {skip_whitespace_and_comments(input, v.pos)} })
                       : v \in {Parser_parse_value(input, colon.pos)} })
                  : colon \in {expect(input, skip_whitespace_and_comments(input, key.pos),
                                      bCOLON)} })
             : key \in {parse_key(input, pos)} })
        : pos \in {skip_whitespace_and_comments(input, pos0)} })

parse_array(input, pos) ==
    The({ IF r.ok THEN array_loop(input, r.pos, <<>>) ELSE r
          : r \in {expect(input, pos, bLBRACKET)} })

parse_object(input, pos) ==
    The({ IF r.ok THEN object_loop(input, r.pos, <<>>) ELSE r
          : r \in {expect(input, pos, bLBRACE)} })

\* parse_value that does not look at what follows the value
parse_value_NoTrailingCheck(input) ==
    The({ IF ~val.ok THEN val
          ELSE Ok(val.val, skip_whitespace_and_comments(input, val.pos))
          : val \in {Parser_parse_value(input, 0)} })

\* json5::parse_value (mod.rs): the whole input must be one value.
parse_value(input) ==
    The({ IF ~val.ok THEN val
          ELSE The({ IF remaining(input, pos) > 0 THEN Err(TrailingData(pos))
                     ELSE Ok(val.val, pos)
                     : pos \in {skip_whitespace_and_comments(input, val.pos)} })
          : val \in {Parser_parse_value(input, 0)} })

-----------------------------------------------------------------------------
(* Value equality: #[derive(PartialEq)] on Number and Value *)

\* f64 == f64
F64Eq(x, y) ==
    IF x.c = "nan" \/ y.c = "nan" THEN FALSE
    ELSE IF x.c = "fin" /\ y.c = "fin" /\ x.int = <<0>> /\ x.frac = <<>>
    THEN y.int = <<0>> /\ y.frac = <<>>
    ELSE x = y

\* NumberEq under which the NaN variant is unequal to itself, as a float NaN is
NumberEq_IEEE(x, y) ==
    /\ x.k = y.k
    /\ x.k # "NaN"
    /\ IF x.k = "Float" THEN F64Eq(x.f, y.f) ELSE x = y

\* the derived PartialEq of Number: same variant and equal payloads
NumberEq(x, y) ==
    /\ x.k = y.k
    /\ IF x.k = "Float" THEN F64Eq(x.f, y.f) ELSE x = y

\* the derived PartialEq of Value; IndexMap compares as a map, whatever the order
RECURSIVE ValueEq(_, _)
ValueEq(x, y) ==
    /\ x.t = y.t
    /\ CASE x.t = "Number" -> NumberEq(x.n, y.n)
         [] x.t = "Array" ->
                /\ Len(x.a) = Len(y.a)
                /\ \A i \in 1..Len(x.a) : ValueEq(x.a[i], y.a[i])
         [] x.t = "Object" ->
                /\ Len(x.m) = Len(y.m)
                /\ \A i \in 1..Len(x.m) :
                      /\ MapIndexOf(y.m, x.m[i][1]) # 0
                      /\ ValueEq(x.m[i][2], y.m[MapIndexOf(y.m, x.m[i][1])][2])
         [] OTHER -> x = y

-----------------------------------------------------------------------------
(* Encode adapter: Serialize for Value through ValueSerializer *)

\* serialize_f64 that keeps every float a Float
serialize_f64_Plain(f) == Number_Float(f)

serialize_f64(f) ==
    IF f.c = "nan" THEN Number_NaN
    ELSE IF f.c = "inf" THEN (IF f.neg THEN Number_NegInfinity ELSE Number_Infinity)
    ELSE Number_Float(f)

\* the f64 that Value::serialize hands to serialize_f64 for the special variants
SerializeNumber(n) ==
    CASE n.k = "Float" -> serialize_f64(n.f)
      [] n.k = "NaN" -> serialize_f64(FNaN)
      [] n.k = "Infinity" -> serialize_f64(FInf(FALSE))
      [] n.k = "NegInfinity" -> serialize_f64(FInf(TRUE))
      [] OTHER -> n

RECURSIVE SerializeValue(_), SerializeEntries(_, _)
\* impl Serialize for Value, run with ValueSerializer
SerializeValue(v) ==
    CASE v.t = "Number" -> Number(SerializeNumber(v.n))
      [] v.t = "Array" -> Array([i \in 1..Len(v.a) |-> SerializeValue(v.a[i])])
      [] v.t = "Object" -> Object(SerializeEntries(v.m, <<>>))
      [] OTHER -> v

\* MapSerializer: serialize_entry is serialize_key, then serialize_value
SerializeEntries(m, acc) ==
    IF m = <<>> THEN acc
    ELSE SerializeEntries(Tail(m), MapInsert(acc, m[1][1], SerializeValue(m[1][2])))

-----------------------------------------------------------------------------
(* Emitters *)

DigitBytes(d) == [i \in 1..Len(d) |-> d[i] + b0]

\* Display for f64 that writes a whole value without a fraction
DisplayF64_Plain(f) ==
    IF f.c = "nan" THEN Bytes(<<"N", "a", "N">>)
    ELSE IF f.c = "inf"
    THEN (IF f.neg THEN <<bMINUS>> ELSE <<>>) \o Bytes(<<"i", "n", "f">>)
    ELSE (IF f.neg THEN <<bMINUS>> ELSE <<>>) \o DigitBytes(f.int)
         \o (IF f.frac = <<>> THEN <<>> ELSE <<bDOT>> \o DigitBytes(f.frac))

\* Display for f64 ({} and {:.1} on a whole value)
DisplayF64(f) ==
    IF f.c = "nan" THEN Bytes(<<"N", "a", "N">>)
    ELSE IF f.c = "inf"
    THEN (IF f.neg THEN <<bMINUS>> ELSE <<>>) \o Bytes(<<"i", "n", "f">>)
    ELSE (IF f.neg THEN <<bMINUS>> ELSE <<>>) \o DigitBytes(f.int) \o <<bDOT>>
         \o (IF f.frac = <<>> THEN <<b0>> ELSE DigitBytes(f.frac))

\* impl Display for Number
DisplayNumber(n) ==
    CASE n.k = "Int" -> (IF n.neg THEN <<bMINUS>> ELSE <<>>) \o DigitBytes(n.mag)
      [] n.k = "Uint" -> DigitBytes(n.mag)
      [] n.k = "Float" -> DisplayF64(n.f)
      [] n.k = "NaN" -> bytesNaN
      [] n.k = "Infinity" -> bytesInfinity
      [] n.k = "NegInfinity" -> <<bMINUS>> \o bytesInfinity

hex_digit(n) == IF n < 10 THEN b0 + n ELSE Ch("a") + n - 10

\* EscapeChar that writes a double quote as it is
EscapeChar_NoQuote(c) ==
    IF c = bBACKSLASH THEN <<bBACKSLASH, bBACKSLASH>>
    ELSE IF c = 8 THEN <<bBACKSLASH, Ch("b")>>
    ELSE IF c = 12 THEN <<bBACKSLASH, Ch("f")>>
    ELSE IF c = bLF THEN <<bBACKSLASH, Ch("n")>>
    ELSE IF c = bCR THEN <<bBACKSLASH, Ch("r")>>
    ELSE IF c = bTAB THEN <<bBACKSLASH, Ch("t")>>
    ELSE IF c < 32
    THEN <<bBACKSLASH, Ch("u"), hex_digit((c \div 4096) % 16), hex_digit((c \div 256) % 16),
           hex_digit((c \div 16) % 16), hex_digit(c % 16)>>
    ELSE Utf8Encode(c)

EscapeChar(c) ==
    IF c = bDQUOTE THEN <<bBACKSLASH, bDQUOTE>>
    ELSE IF c = bBACKSLASH THEN <<bBACKSLASH, bBACKSLASH>>
    ELSE IF c = 8 THEN <<bBACKSLASH, Ch("b")>>
    ELSE IF c = 12 THEN <<bBACKSLASH, Ch("f")>>
    ELSE IF c = bLF THEN <<bBACKSLASH, Ch("n")>>
    ELSE IF c = bCR THEN <<bBACKSLASH, Ch("r")>>
    ELSE IF c = bTAB THEN <<bBACKSLASH, Ch("t")>>
    ELSE IF c < 32
    THEN <<bBACKSLASH, Ch("u"), hex_digit((c \div 4096) % 16), hex_digit((c \div 256) % 16),
           hex_digit((c \div 16) % 16), hex_digit(c % 16)>>
    ELSE Utf8Encode(c)

RECURSIVE EscapeChars(_)
EscapeChars(cs) == IF cs = <<>> THEN <<>> ELSE EscapeChar(cs[1]) \o EscapeChars(Tail(cs))

\* write_escaped_str(out, s, true)
write_escaped_str(s) == <<bDQUOTE>> \o EscapeChars(Chars(s)) \o <<bDQUOTE>>

is_valid_identifier(key) ==
    LET cs == Chars(key) IN
    /\ cs # <<>>
    /\ IsAsciiAlpha(cs[1]) \/ cs[1] = bUNDERSCORE \/ cs[1] = bDOLLAR
    /\ \A i \in 2..Len(cs) :
          IsAsciiAlpha(cs[i]) \/ IsDigit(cs[i]) \/ cs[i] = bUNDERSCORE \/ cs[i] = bDOLLAR

\* write_object_key that looks at quote_keys alone
write_object_key_AllBare(k, quote_keys) ==
    IF ~quote_keys THEN k ELSE write_escaped_str(k)

\* write_object_key of both formatters
write_object_key(k, quote_keys) ==
    IF ~quote_keys /\ is_valid_identifier(k) THEN k ELSE write_escaped_str(k)

MAX_DEPTH == 512

RECURSIVE Compact_write_value(_, _, _, _), Compact_items(_, _, _, _, _, _)

\* CompactFormatter::write_value: Ok(text, 0) or Err(Custom)
Compact_write_value(v, depth, quote_keys, max_depth) ==
    IF depth > max_depth THEN Err(Custom("Recursion limit exceeded"))
    ELSE CASE v.t = "Null" -> Ok(Bytes(<<"n", "u", "l", "l">>), 0)
           [] v.t = "Bool" -> Ok(IF v.b THEN Bytes(<<"t", "r", "u", "e">>)
                                 ELSE Bytes(<<"f", "a", "l", "s", "e">>), 0)
           [] v.t = "Number" -> Ok(DisplayNumber(v.n), 0)
           [] v.t = "String" -> Ok(write_escaped_str(v.s), 0)
           [] v.t = "Array" ->
                  Compact_items(v.a, 1, <<bLBRACKET>>, depth, quote_keys, max_depth)
           [] v.t = "Object" ->
                  Compact_items(v.m, 1, <<bLBRACE>>, depth, quote_keys, max_depth)

\* the loops of CompactFormatter::write_array and write_object: out is the text so
\* far, i the index of the next element (an entry <<key, value>> in an object)
Compact_items(items, i, out, depth, quote_keys, max_depth) ==
    LET isObj == out[1] = bLBRACE IN
    IF i > Len(items) THEN Ok(Append(out, IF isObj THEN bRBRACE ELSE bRBRACKET), 0)
    ELSE LET sep == IF i > 1 THEN <<bCOMMA>> ELSE <<>>
             key == IF isObj THEN write_object_key(items[i][1], quote_keys) \o <<bCOLON>>
                    ELSE <<>>
         IN The({ IF ~r.ok THEN r
                  ELSE Compact_items(items, i + 1, out \o sep \o key \o r.val,
                                     depth, quote_keys, max_depth)
                  : r \in {Compact_write_value(IF isObj THEN items[i][2] ELSE items[i],
                                               depth + 1, quote_keys, max_depth)} })

\* PrettyFormatter::write_indent: indent_str pushed depth times
write_indent(indent_str, depth) ==
    [i \in 1..(depth * Len(indent_str)) |-> indent_str[((i - 1) % Len(indent_str)) + 1]]

RECURSIVE Pretty_write_value(_, _, _, _), Pretty_items(_, _, _, _, _, _)

\* PrettyFormatter::write_value: Ok(text, 0)
Pretty_write_value(v, depth, indent_str, quote_keys) ==
    CASE v.t = "Null" -> Ok(Bytes(<<"n", "u", "l", "l">>), 0)
      [] v.t = "Bool" -> Ok(IF v.b THEN Bytes(<<"t", "r", "u", "e">>)
                            ELSE Bytes(<<"f", "a", "l", "s", "e">>), 0)
      [] v.t = "Number" -> Ok(DisplayNumber(v.n), 0)
      [] v.t = "String" -> Ok(write_escaped_str(v.s), 0)
      [] v.t = "Array" ->
             IF v.a = <<>> THEN Ok(<<bLBRACKET, bRBRACKET>>, 0)
             ELSE Pretty_items(v.a, 1, <<bLBRACKET, bLF>>, depth, indent_str, quote_keys)
      [] v.t = "Object" ->
             IF v.m = <<>> THEN Ok(<<bLBRACE, bRBRACE>>, 0)
             ELSE Pretty_items(v.m, 1, <<bLBRACE, bLF>>, depth, indent_str, quote_keys)

\* Pretty_items that indents the elements as far as the closing bracket
Pretty_items_SameIndent(items, i, out, depth, indent_str, quote_keys) ==
    LET isObj == out[1] = bLBRACE IN
    IF i > Len(items)
    THEN Ok(out \o write_indent(indent_str, depth)
                \o <<IF isObj THEN bRBRACE ELSE bRBRACKET>>, 0)
    ELSE LET key == IF isObj
                    THEN write_object_key(items[i][1], quote_keys) \o <<bCOLON, bSP>>
                    ELSE <<>>
             sep == IF i < Len(items) THEN <<bCOMMA, bLF>> ELSE <<bLF>>
         IN The({ IF ~r.ok THEN r
                  ELSE Pretty_items(items, i + 1,
                           out \o write_indent(indent_str, depth) \o key \o r.val \o sep,
                           depth, indent_str, quote_keys)
                  : r \in {Pretty_write_value(IF isObj THEN items[i][2] ELSE items[i],
                                              depth + 1, indent_str, quote_keys)} })

\* the loops of PrettyFormatter::write_array and write_object
Pretty_items(items, i, out, depth, indent_str, quote_keys) ==
    LET isObj == out[1] = bLBRACE IN
    IF i > Len(items)
    THEN Ok(out \o write_indent(indent_str, depth)
                \o <<IF isObj THEN bRBRACE ELSE bRBRACKET>>, 0)
    ELSE LET key == IF isObj
                    THEN write_object_key(items[i][1], quote_keys) \o <<bCOLON, bSP>>
                    ELSE <<>>
             sep == IF i < Len(items) THEN <<bCOMMA, bLF>> ELSE <<bLF>>
         IN The({ IF ~r.ok THEN r
                  ELSE Pretty_items(items, i + 1,
                           out \o write_indent(indent_str, depth + 1) \o key \o r.val \o sep,
                           depth, indent_str, quote_keys)
                  : r \in {Pretty_write_value(IF isObj THEN items[i][2] ELSE items[i],
                                              depth + 1, indent_str, quote_keys)} })

\* ser::serialize on a Value: through ValueSerializer, then the compact formatter
\* CompactFormatter::new(false, None)
serialize(v) == Compact_write_value(SerializeValue(v), 0, FALSE, MAX_DEPTH)

\* json5::to_string
to_string(v) == serialize(v)

\* ser::serialize_with_formatter with a CompactFormatter or a PrettyFormatter
serialize_with_formatter(v, fm) ==
    IF fm.formatter = "Compact"
    THEN Compact_write_value(SerializeValue(v), 0, fm.quote_keys, fm.max_depth)
    ELSE Pretty_write_value(SerializeValue(v), 0, fm.indent_str, fm.quote_keys)

\* json5::to_string_pretty: PrettyFormatter::new("    ", false)
to_string_pretty(v) ==
    Pretty_write_value(SerializeValue(v), 0, <<bSP, bSP, bSP, bSP>>, FALSE)

-----------------------------------------------------------------------------
(* The cases: Values handed to the emitter *)

MaxElems == 2       \* longest array / object built from the element values
MaxPad == 1         \* most pieces of whitespace or comment on each side of a text

NumberLeaves ==
    { Number_Int(FALSE, <<0>>), Number_Int(FALSE, <<1>>), Number_Int(TRUE, <<1>>),
      Number_Int(FALSE, <<4, 2>>), Number_Int(FALSE, I64Max), Number_Int(TRUE, I64MinMag),
      Number_Uint(<<5>>), Number_Uint(I64MinMag), Number_Uint(U64Max),
      Number_Float(Fin(FALSE, <<5>>, <<>>)), Number_Float(Fin(FALSE, <<0>>, <<5>>)),
      Number_Float(Fin(TRUE, <<1>>, <<2, 5>>)), Number_Float(Fin(FALSE, <<0>>, <<>>)),
      Number_Float(Fin(TRUE, <<0>>, <<>>)),
      Number_Float(Fin(FALSE, <<1>> \o Zeros(21), <<>>)),
      Number_Float(Fin(FALSE, <<0>>, <<0, 0, 0, 0, 0, 0, 1>>)),
      Number_Float(FNaN), Number_Float(FInf(FALSE)), Number_Float(FInf(TRUE)),
      Number_NaN, Number_Infinity, Number_NegInfinity }

StringLeaves ==
    { <<>>, Bytes(<<"a">>), Bytes(<<"a", " ", "b">>), Bytes(<<"a", "\"", "b">>),
      Bytes(<<"\\">>), Bytes(<<"\\", "n">>), Bytes(<<"'">>), Bytes(<<"\n">>),
      Bytes(<<"a", "\t", "\r">>), <<1>>, <<8, 12, 11>>, <<31>>, <<0>>, <<127>>,
      <<195, 169>>, <<240, 159, 152, 128>>, <<226, 128, 168>>,
      Bytes(<<"n", "u", "l", "l">>), Bytes(<<"/", "/", "x">>) }

KeyLeaves ==
    { Bytes(<<"a">>), Bytes(<<"b", "1">>), Bytes(<<"_", "$">>), <<>>, Bytes(<<"1", "a">>),
      Bytes(<<"a", "-", "b">>), Bytes(<<"q", "\"">>), <<195, 169>>,
      Bytes(<<"n", "u", "l", "l">>) }

Leaves ==
    {Null, Bool(TRUE), Bool(FALSE)}
    \cup {Number(n) : n \in NumberLeaves} \cup {String(x) : x \in StringLeaves}

\* the values that containers are filled with
Elems ==
    { Null, Number(Number_Int(TRUE, <<1>>)), Number(Number_Float(Fin(FALSE, <<5>>, <<>>))),
      String(Bytes(<<"a", "\"", "b">>)) }

ElemKeys == { Bytes(<<"a">>), Bytes(<<"b", "1">>), Bytes(<<"a", "-", "b">>) }

SeqsUpTo(S, n) == UNION {[1..k -> S] : k \in 0..n}

NoDupKeys(m) == \A i, j \in 1..Len(m) : m[i][1] = m[j][1] => i = j

Arrays1 == {Array(a) : a \in SeqsUpTo(Elems, MaxElems)}
Objects1 == {Object(m) : m \in {x \in SeqsUpTo(ElemKeys \X Elems, MaxElems) : NoDupKeys(x)}}

\* one more level of nesting, and every leaf and key once inside a container
Nested ==
    {Array(<<c>>) : c \in Arrays1 \cup Objects1}
    \cup {Object(<<<<k, c>>>>) : k \in ElemKeys, c \in Arrays1}
    \cup {Array(<<Null, l>>) : l \in Leaves}
    \cup {Object(<<<<k, Bool(TRUE)>>, <<Bytes(<<"z">>), Array(<<>>)>> >>) : k \in KeyLeaves}

Values == Leaves \cup Arrays1 \cup Objects1 \cup Nested

-----------------------------------------------------------------------------
(* The cases: texts handed to parse_value *)

MaxNest == 2        \* most open containers around the place where a text is cut
MaxPairs == 3       \* most key/value pairs in an object text

RECURSIVE Flatten(_)
Flatten(ss) == IF ss = <<>> THEN <<>> ELSE ss[1] \o Flatten(Tail(ss))

\* whitespace and complete comments
PadPieces ==
    { Bytes(<<" ">>), Bytes(<<"/", "/", "c", "\n">>), Bytes(<<"/", "*", "c", "*", "/">>) }
\* ... and comments that run to the end of the input
EndPieces == { Bytes(<<"/", "/", "c">>), Bytes(<<"/", "*", "c", " ", "*">>) }
\* every other form of whitespace the scanner knows, one at a time
RarePads ==
    { Bytes(<<"\t">>), Bytes(<<"\n">>), Bytes(<<"\r">>), <<194, 160>>,
      <<226, 128, 168>>, <<226, 128, 169>>,
      Bytes(<<"/", "/", "c", "\r">>), Bytes(<<"/", "/">>) \o <<226, 128, 168>>,
      Bytes(<<"/", "*", "*", "/">>), Bytes(<<"/", "*", "/", "*", "\n", "*", "*", "/">>) }

Pads == {Flatten(ps) : ps \in SeqsUpTo(PadPieces, MaxPad)}
PrePads == Pads \cup RarePads
PostPads == {p \o e : p \in Pads, e \in {<<>>} \cup EndPieces} \cup RarePads

\* complete values and the Value each one denotes
Cores ==
    { [txt |-> Bytes(<<"n", "u", "l", "l">>), val |-> Null],
      [txt |-> Bytes(<<"t", "r", "u", "e">>), val |-> Bool(TRUE)],
      [txt |-> Bytes(<<"f", "a", "l", "s", "e">>), val |-> Bool(FALSE)],
      [txt |-> Bytes(<<"4", "2">>), val |-> Number(Number_Int(FALSE, <<4, 2>>))],
      [txt |-> Bytes(<<"-", "1", ".", "5">>),
       val |-> Number(Number_Float(Fin(TRUE, <<1>>, <<5>>)))],
      [txt |-> Bytes(<<"0", "x", "1", "F">>), val |-> Number(Number_Uint(<<3, 1>>))],
      [txt |-> Bytes(<<"-", "I", "n", "f", "i", "n", "i", "t", "y">>),
       val |-> Number(Number_NegInfinity)],
      [txt |-> Bytes(<<"\"", "s", " ", "/", "/", "\"">>),
       val |-> String(Bytes(<<"s", " ", "/", "/">>))],
      [txt |-> Bytes(<<"'", "/", "*", "'">>), val |-> String(Bytes(<<"/", "*">>))],
      [txt |-> Bytes(<<"[", "1", ",", " ", "[", "]", ",", "]">>),
       val |-> Array(<<Number(Number_Int(FALSE, <<1>>)), Array(<<>>)>>)],
      [txt |-> Bytes(<<"{", "a", ":", "/", "*", "c", "*", "/", "1", "}">>),
       val |-> Object(<< <<Bytes(<<"a">>), Number(Number_Int(FALSE, <<1>>))>> >>)] }

\* bytes that cannot continue any of the cores and start no whitespace or comment
Junk ==
    { Bytes(<<"x">>), Bytes(<<"]">>), Bytes(<<"}">>), Bytes(<<",">>), Bytes(<<"/">>),
      Bytes(<<"/", " ", "/">>), Bytes(<<"\"">>), Bytes(<<"n", "u", "l", "l">>),
      Bytes(<<"[", "1", "]">>), <<194, 161>>, <<226, 130, 172>>, <<239, 187, 191>> }

\* a value with whitespace and comments around it
PaddedCases ==
    { [class |-> "padded", pre |-> a, core |-> c.txt, post |-> b, val |-> c.val]
        : a \in PrePads, c \in Cores, b \in PostPads }

\* a value, whitespace and comments, and then something else
JunkCases ==
    { [class |-> "junk", pre |-> a, core |-> c.txt, post |-> b \o j, val |-> c.val,
       junk_at |-> Len(a) + Len(c.txt) + Len(b)]
        : a \in {<<>>, Bytes(<<" ">>)}, c \in Cores, b \in Pads, j \in Junk }

\* texts that end too early: open containers, up to a place where a value is
\* expected ...
Frames ==
    { Bytes(<<"[">>), Bytes(<<"[", "1", ",", " ">>), Bytes(<<"{", "a", ":">>),
      Bytes(<<"{", "a", ":", "1", ",", "\"", "b", "\"", " ", ":", " ">>) }

\* ... and then the end of the input inside one more container,
ContainerTails ==
    { Bytes(<<"[">>), Bytes(<<"[", "1">>), Bytes(<<"[", "1", ",">>),
      Bytes(<<"[", "1", ",", " ", "2">>), Bytes(<<"[", "[", "]">>),
      Bytes(<<"{">>), Bytes(<<"{", "a">>), Bytes(<<"{", "a", ":">>),
      Bytes(<<"{", "a", ":", "1">>), Bytes(<<"{", "a", ":", "1", ",">>),
      Bytes(<<"{", "\"", "k", "\"">>), Bytes(<<"{", "'", "k", "'", ":", "{", "}">>) }

\* inside a string (open: the offset in txt of the quote that opens it),
StringTails ==
    {[txt |-> t, open |-> 0] :
        t \in { Bytes(<<"\"">>), Bytes(<<"\"", "a", "b", "c">>), Bytes(<<"'", "a", "\"">>),
                Bytes(<<"\"", "a", "\\">>), Bytes(<<"\"", "a", "\\", "n">>),
                Bytes(<<"\"", "a", "\\", "\"">>), Bytes(<<"'">>) \o <<195, 169>>,
                Bytes(<<"\"", "a", "\\", "\n", "b">>), Bytes(<<"'", "\\", "\r", "\n">>),
                Bytes(<<"\"", "a", "\t", "b">>), Bytes(<<"\"", "a", "\n">>),
                Bytes(<<"\"", "\r", "a">>), Bytes(<<"'", "a", "\r">>),
                Bytes(<<"'">>) \o <<1>>, Bytes(<<"\"", "a", "\\", "n">>) \o <<31>>,
                Bytes(<<"\"", "a", "\\", "\n", "b", "\t">>),
                Bytes(<<"\"", "\\", "\\", "\n">>) }}
    \cup {[txt |-> Bytes(<<"{", "\"", "k">>), open |-> 1],
          [txt |-> Bytes(<<"{", "k", ":", "'", "v">>), open |-> 3],
          [txt |-> Bytes(<<"{", "k", ":", "'", "v", "\n">>), open |-> 3]}

\* or before any value at all
EmptyTexts ==
    { <<>>, Bytes(<<" ">>), Bytes(<<"\n", "\t">>), Bytes(<<"/", "/", "c">>),
      Bytes(<<"/", "/", "c", "\n">>), Bytes(<<"/", "*", "c">>),
      Bytes(<<"/", "*", "c", "*", "/", " ">>), <<194, 160>>, Bytes(<<"/", "*">>) }

Contexts == {Flatten(fs) : fs \in SeqsUpTo(Frames, MaxNest)}

EofCases ==
    { [class |-> "eof", pre |-> f, core |-> t, post |-> b, cut |-> "container"]
        : f \in Contexts, t \in ContainerTails, b \in {<<>>} \cup PadPieces \cup EndPieces }
    \cup
    { [class |-> "eof", pre |-> f, core |-> t.txt, post |-> <<>>, cut |-> "string",
       open |-> Len(f) + t.open]
        : f \in Contexts, t \in StringTails }
    \cup
    { [class |-> "eof", pre |-> <<>>, core |-> t, post |-> <<>>, cut |-> "empty"]
        : t \in EmptyTexts }
    \cup
    { [class |-> "eof", pre |-> f, core |-> <<>>, post |-> b, cut |-> "container"]
        : f \in Contexts \ {<<>>}, b \in {<<>>} \cup PadPieces \cup EndPieces }

\* decimal literals: sign, integer digits, fraction, exponent
\* (fits: the integer digits as a number are at most i64::MAX / exactly 2^63 /
\*  above that and at most u64::MAX / above u64::MAX)
IntParts ==
    { [digits |-> <<>>, fits |-> "none"],
      [digits |-> <<0>>, fits |-> "i64"],
      [digits |-> <<1>>, fits |-> "i64"],
      [digits |-> <<5>>, fits |-> "i64"],
      [digits |-> <<1, 0, 0>>, fits |-> "i64"],
      [digits |-> <<0, 7>>, fits |-> "i64"],
      [digits |-> <<0, 0>>, fits |-> "i64"],
      [digits |-> <<9, 2, 2, 3, 3, 7, 2, 0, 3, 6, 8, 5, 4, 7, 7, 5, 8, 0, 7>>, fits |-> "i64"],
      [digits |-> <<9, 2, 2, 3, 3, 7, 2, 0, 3, 6, 8, 5, 4, 7, 7, 5, 8, 0, 8>>, fits |-> "2^63"],
      [digits |-> <<9, 2, 2, 3, 3, 7, 2, 0, 3, 6, 8, 5, 4, 7, 7, 5, 8, 0, 9>>, fits |-> "u64"],
      [digits |-> <<1, 8, 4, 4, 6, 7, 4, 4, 0, 7, 3, 7, 0, 9, 5, 5, 1, 6, 1, 5>>, fits |-> "u64"],
      [digits |-> <<1, 8, 4, 4, 6, 7, 4, 4, 0, 7, 3, 7, 0, 9, 5, 5, 1, 6, 1, 6>>, fits |-> "no"],
      [digits |-> <<1>> \o Zeros(21), fits |-> "no"] }

Signs == { <<>>, Bytes(<<"+">>), Bytes(<<"-">>) }
FracParts == { <<>>, Bytes(<<".">>), Bytes(<<".", "5">>), Bytes(<<".", "2", "5", "0">>) }
ExpParts ==
    { <<>>, Bytes(<<"e", "2">>), Bytes(<<"E", "-", "1">>), Bytes(<<"e", "+", "0">>) }

DecimalShapes ==
    { [class |-> "decimal", pre |-> sg, core |-> DigitBytes(ip.digits) \o fr \o ex,
       post |-> <<>>, digits |-> ip.digits, fits |-> ip.fits,
       negative |-> (sg = Bytes(<<"-">>)), frac |-> fr, exp |-> ex]
        : sg \in Signs, ip \in IntParts, fr \in FracParts, ex \in ExpParts }

\* a literal has a digit before or after the dot
DecimalCases == {c \in DecimalShapes : c.digits # <<>> \/ Len(c.frac) > 1}

\* hexadecimal literals: sign, 0x or 0X, digits; n is the number the digits denote
\* (fits: there is no digit / n fits u64 / n needs more than 64 bits)
HexParts ==
    { [hex |-> <<>>, n |-> <<>>, fits |-> "none"],
      [hex |-> Bytes(<<"_">>), n |-> <<>>, fits |-> "none"],
      [hex |-> Bytes(<<"0">>), n |-> <<0>>, fits |-> "u64"],
      [hex |-> Bytes(<<"1", "0">>), n |-> <<1, 6>>, fits |-> "u64"],
      [hex |-> Bytes(<<"F", "F">>), n |-> <<2, 5, 5>>, fits |-> "u64"],
      [hex |-> Bytes(<<"f", "_", "f">>), n |-> <<2, 5, 5>>, fits |-> "u64"],
      [hex |-> Bytes(<<"0", "0", "1", "a">>), n |-> <<2, 6>>, fits |-> "u64"],
      [hex |-> Bytes(<<"D", "E", "A", "D", "B", "E", "E", "F">>),
       n |-> <<3, 7, 3, 5, 9, 2, 8, 5, 5, 9>>, fits |-> "u64"],
      [hex |-> Bytes(<<"7", "F", "F", "F", "F", "F", "F", "F", "F", "F", "F", "F", "F", "F", "F", "F">>),
       n |-> <<9, 2, 2, 3, 3, 7, 2, 0, 3, 6, 8, 5, 4, 7, 7, 5, 8, 0, 7>>, fits |-> "u64"],
      [hex |-> Bytes(<<"8", "0", "0", "0", "0", "0", "0", "0", "0", "0", "0", "0", "0", "0", "0", "0">>),
       n |-> <<9, 2, 2, 3, 3, 7, 2, 0, 3, 6, 8, 5, 4, 7, 7, 5, 8, 0, 8>>, fits |-> "u64"],
      [hex |-> Bytes(<<"8", "0", "0", "0", "0", "0", "0", "0", "0", "0", "0", "0", "0", "0", "0", "1">>),
       n |-> <<9, 2, 2, 3, 3, 7, 2, 0, 3, 6, 8, 5, 4, 7, 7, 5, 8, 0, 9>>, fits |-> "u64"],
      [hex |-> Bytes(<<"F", "F", "F", "F", "F", "F", "F", "F", "F", "F", "F", "F", "F", "F", "F", "F">>),
       n |-> <<1, 8, 4, 4, 6, 7, 4, 4, 0, 7, 3, 7, 0, 9, 5, 5, 1, 6, 1, 5>>, fits |-> "u64"],
      [hex |-> Bytes(<<"0", "F", "F", "F", "F", "F", "F", "F", "F", "F", "F", "F", "F", "F", "F", "F", "F">>),
       n |-> <<1, 8, 4, 4, 6, 7, 4, 4, 0, 7, 3, 7, 0, 9, 5, 5, 1, 6, 1, 5>>, fits |-> "u64"],
      [hex |-> Bytes(<<"1", "0", "0", "0", "0", "0", "0", "0", "0", "0", "0", "0", "0", "0", "0", "0", "0">>),
       n |-> <<>>, fits |-> "over"] }

HexCases ==
    { [class |-> "hex", pre |-> sg, core |-> Bytes(<<"0", x>>) \o hp.hex, post |-> <<>>,
       negative |-> (sg = Bytes(<<"-">>)), n |-> hp.n, fits |-> hp.fits]
        : sg \in Signs, x \in {"x", "X"}, hp \in HexParts }

\* the special numeric literals
SpecialCases ==
    { [class |-> "special", pre |-> <<>>, core |-> t, post |-> <<>>]
        : t \in { Bytes(<<"N", "a", "N">>), Bytes(<<"I", "n", "f", "i", "n", "i", "t", "y">>),
                  Bytes(<<"+", "I", "n", "f", "i", "n", "i", "t", "y">>),
                  Bytes(<<"-", "I", "n", "f", "i", "n", "i", "t", "y">>) } }

\* object texts: any sequence of key/value pairs, keys bare or quoted
PairKeys == { Bytes(<<"a">>), Bytes(<<"b">>), Bytes(<<"c", "2">>) }
PairVals == { <<1>>, <<2>> }

RECURSIVE PairsText(_, _)
PairsText(ps, quote) ==
    IF ps = <<>> THEN <<>>
    ELSE quote \o ps[1][1] \o quote \o <<bCOLON>> \o DigitBytes(ps[1][2])
         \o (IF Len(ps) > 1 THEN <<bCOMMA>> ELSE <<>>) \o PairsText(Tail(ps), quote)

ObjectCases ==
    { [class |-> "object", pre |-> <<bLBRACE>>, core |-> PairsText(ps, q),
       post |-> tc \o <<bRBRACE>>, pairs |-> ps]
        : ps \in SeqsUpTo(PairKeys \X PairVals, MaxPairs),
          q \in {<<>>, <<bDQUOTE>>, <<bSQUOTE>>},
          tc \in {<<>>, <<bCOMMA>>} }

\* array and object texts built from elements ("x", "y") and commas ("c") in any
\* order, with sp between the tokens
MaxTokens == 4      \* most tokens between the brackets of a container text

SepTokens == {"x", "y", "c"}
SepSpaces == { <<>>, <<bSP>>, Bytes(<<"/", "*", "c", "*", "/">>) }

SepTokenText(kind, tok) ==
    IF tok = "c" THEN <<bCOMMA>>
    ELSE IF kind = "array"
         THEN (IF tok = "x" THEN Bytes(<<"-", "1">>) ELSE Bytes(<<"'", "b", "'">>))
         ELSE (IF tok = "x" THEN Bytes(<<"a", ":", "-", "1">>)
               ELSE Bytes(<<"'", "b", "'", ":", "[", "]">>))

SepText(kind, toks, sp) ==
    Flatten([i \in 1..Len(toks) |-> sp \o SepTokenText(kind, toks[i])]) \o sp

SepCases ==
    { [class |-> "sep", kind |-> k, toks |-> ts,
       pre |-> IF k = "array" THEN <<bLBRACKET>> ELSE <<bLBRACE>>,
       core |-> SepText(k, ts, sp),
       post |-> IF k = "array" THEN <<bRBRACKET>> ELSE <<bRBRACE>>]
        : k \in {"array", "object"}, ts \in SeqsUpTo(SepTokens, MaxTokens), sp \in SepSpaces }

\* the two texts of the tolerance example and the Value each one denotes
SepExamples ==
    { [class |-> "sep_example", pre |-> <<>>, post |-> <<>>,
       core |-> Bytes(<<"{", "f", "o", "o", ":", " ", "1", ",", " ", "b", "a", "r", ":", " ",
                        "'", "b", "a", "z", "'", ",", "}">>),
       val |-> Object(<< <<Bytes(<<"f", "o", "o">>), Number(Number_Int(FALSE, <<1>>))>>,
                         <<Bytes(<<"b", "a", "r">>), String(Bytes(<<"b", "a", "z">>))>> >>)] }
    \cup
    { [class |-> "sep_example", pre |-> <<>>, post |-> <<>>, core |-> t,
       val |-> Array(<<Number(Number_Int(FALSE, <<1>>)), Number(Number_Int(FALSE, <<2>>)),
                       Number(Number_Int(FALSE, <<3>>))>>)]
        : t \in { Bytes(<<"[", "1", ",", " ", "2", ",", " ", "3", ",", "]">>),
                  Bytes(<<"[", "1", ",", " ", "2", ",", " ", "3", "]">>) } }

\* what follows a backslash in a string. form: simple (one of the ten
\* characters), x, u4 (four digits), ub (one to six digits in braces), pair (a
\* high and a low surrogate), other (any other character), broken (an x or u
\* without its digits)
Escapes ==
    { [form |-> "simple", esc |-> <<Ch(c)>>]
      : c \in {"\"", "'", "\\", "/", "b", "f", "n", "r", "t", "v"} }
    \cup { [form |-> "x", esc |-> Bytes(<<"x">> \o d)]
           : d \in { <<"4", "1">>, <<"0", "0">>, <<"f", "f">>, <<"E", "9">>, <<"7", "f">>,
                     <<"1", "F">>, <<"0", "a">> } }
    \cup { [form |-> "u4", esc |-> Bytes(<<"u">> \o d)]
           : d \in { <<"0", "0", "4", "1">>, <<"0", "0", "e", "9">>, <<"2", "0", "A", "C">>,
                     <<"F", "F", "F", "F">>, <<"0", "0", "0", "0">>, <<"D", "7", "F", "F">>,
                     <<"E", "0", "0", "0">>, <<"D", "8", "0", "0">>, <<"d", "b", "f", "f">>,
                     <<"D", "C", "0", "0">>, <<"D", "F", "F", "F">> } }
    \cup { [form |-> "ub", esc |-> Bytes(<<"u", "{">> \o d \o <<"}">>)]
           : d \in { <<"4", "1">>, <<"0">>, <<"1", "F", "6", "0", "0">>,
                     <<"1", "0", "F", "F", "F", "F">>, <<"0", "0", "0", "0", "4", "1">>,
                     <<"D", "8", "0", "0">>, <<"D", "F", "F", "F">>,
                     <<"1", "1", "0", "0", "0", "0">>, <<"F", "F", "F", "F", "F", "F">> } }
    \cup { [form |-> "pair", esc |-> Bytes(<<"u">> \o h \o <<"\\", "u">> \o l)]
           : h \in { <<"D", "8", "3", "D">>, <<"D", "8", "0", "0">>, <<"D", "B", "F", "F">> },
             l \in { <<"D", "E", "0", "0">>, <<"D", "C", "0", "0">>, <<"d", "f", "f", "f">> } }
    \cup { [form |-> "other", esc |-> e]
           : e \in { Bytes(<<"q">>), Bytes(<<"a">>), Bytes(<<"z">>), Bytes(<<"U">>),
                     Bytes(<<"X">>), Bytes(<<"N">>), Bytes(<<"1">>), Bytes(<<"9">>),
                     Bytes(<<" ">>), Bytes(<<"-">>), Bytes(<<"{">>), <<bTAB>>, <<1>>, <<127>>,
                     <<195, 169>>, <<240, 159, 152, 128>>,
                     Bytes(<<"0">>), Bytes(<<"0", "0">>), Bytes(<<"0", "1">>),
                     Bytes(<<"0", "9">>), <<bLF>>, <<bCR>>, <<bCR, bLF>>, <<bLF, bCR>> } }
    \cup { [form |-> "broken", esc |-> Bytes(e)]
           : e \in { <<"x">>, <<"x", "4">>, <<"x", "G", "1">>, <<"x", "4", "g">>, <<"u">>,
                     <<"u", "1", "2">>, <<"u", "0", "0", "4", "g">>, <<"u", "{", "}">>,
                     <<"u", "{", "4", "1">>, <<"u", "{", "g", "}">>,
                     <<"u", "{", "1", "2", "3", "4", "5", "6", "7", "}">>,
                     <<"u", "D", "8", "3", "D", "\\", "u", "0", "0", "4", "1">>,
                     <<"u", "D", "8", "3", "D", "\\", "u", "D", "E">>,
                     <<"u", "D", "8", "3", "D", "\\", "n">>,
                     <<"u", "D", "8", "0", "0", "\\", "u", "D", "8", "0", "0">>,
                     <<"u", "D", "C", "0", "0", "\\", "u", "D", "8", "0", "0">>,
                     <<"u", "D", "B", "F", "F", "\\", "u", "{", "D", "C", "0", "0", "}">> } }

\* a string of one escape between a and b, between a and a raw tab, or alone,
\* in either kind of quotes
EscapeCases ==
    { [class |-> "escape", form |-> e.form, esc |-> e.esc, quote |-> q,
       before |-> x[1], after |-> x[2],
       pre |-> <<>>, core |-> <<q>> \o x[1] \o <<bBACKSLASH>> \o e.esc \o x[2] \o <<q>>,
       post |-> <<>>]
      : e \in Escapes, q \in {bDQUOTE, bSQUOTE},
        x \in { <<<<>>, <<>>>>, <<Bytes(<<"a">>), Bytes(<<"b">>)>>,
                <<Bytes(<<"a">>), <<bTAB>>>> } }

\* a string with a raw LF, CR or CR LF in it: after nothing, plain characters,
\* escapes that are good and bad, a multi-byte character; before nothing, a
\* character, an escape, an escaped quote. The string stands alone, in an
\* array, or as the key of an object.
RawBreakCases ==
    { [class |-> "rawbreak", quote |-> q, before |-> x, brk |-> n, after |-> y,
       pre |-> c[1], core |-> <<q>> \o x \o n \o y \o <<q>>, post |-> c[2]]
      : q \in {bDQUOTE, bSQUOTE},
        x \in { <<>>, Bytes(<<"a">>), Bytes(<<"\\", "n">>), Bytes(<<"\\", "\\">>),
                Bytes(<<"a", "\\", "u", "0", "0", "4", "1">>), Bytes(<<"\\", "q">>),
                <<195, 169>>, Bytes(<<"\\">>) \o <<195, 169>>, Bytes(<<"\\", "\n", "a">>) },
        n \in { <<bLF>>, <<bCR>>, <<bCR, bLF>> },
        y \in { <<>>, Bytes(<<"b">>), Bytes(<<"\\", "t">>), Bytes(<<"\\", "\"">>) },
        c \in { <<<<>>, <<>>>>, <<Bytes(<<"[">>), Bytes(<<"]">>)>>,
                <<Bytes(<<"{">>), Bytes(<<":", "1", "}">>)>> } }

\* what may stand in front of a value. kind: named (the whitespace and the
\* comments that C25 names), general (other code points of U+2000..U+202F),
\* ascii (vertical tab, form feed), other (any other code point)
LeadPieces ==
    { [kind |-> "named", bytes |-> b]
      : b \in { <<bSP>>, <<bTAB>>, <<bLF>>, <<bCR>>, <<194, 160>>, <<226, 128, 168>>,
                <<226, 128, 169>>, Bytes(<<"/", "/", "c", "\n">>),
                Bytes(<<"/", "*", "c", "*", "/">>),
                Bytes(<<"/", "/">>) \o <<226, 128, 148, 226, 128, 168>> } }
    \cup { [kind |-> "general", bytes |-> b]
           : b \in { <<226, 128, 148>>, <<226, 128, 139>>, <<226, 128, 128>>,
                     <<226, 128, 175>>, <<226, 128, 140>> } }
    \cup { [kind |-> "ascii", bytes |-> b] : b \in { <<11>>, <<12>> } }
    \cup { [kind |-> "other", bytes |-> b]
           : b \in { <<226, 128, 176>>, <<226, 129, 160>>, <<239, 187, 191>>, <<194, 161>>,
                     <<194, 133>>, <<227, 128, 128>>, <<225, 154, 128>>, <<195, 169>>,
                     <<240, 159, 152, 128>> } }

\* a piece in front of the value 1: at the start of the text, after a space,
\* and in front of the element of an array
LeadCases ==
    { [class |-> "lead", kind |-> l.kind, piece |-> l.bytes, lead_at |-> Len(c[1]),
       pre |-> c[1] \o l.bytes, core |-> Bytes(<<"1">>), post |-> c[2]]
      : l \in LeadPieces,
        c \in { <<<<>>, <<>>>>, <<<<bSP>>, <<>>>>, <<Bytes(<<"[">>), Bytes(<<"]">>)>>,
                <<<<>>, Bytes(<<"/", "*", "c">>)>> } }
    \cup { [class |-> "lead", kind |-> "open", piece |-> b, lead_at |-> 0,
            pre |-> <<>>, core |-> b, post |-> <<>>]
           : b \in { Bytes(<<"/", "*", "c", " ", "1">>), Bytes(<<"/", "*">>),
                     Bytes(<<"/", "*", "*">>), Bytes(<<" ", "/", "*", "/">>) } }

\* first code points of a bare key. kind: start (alphabetic, '_', '$'; e-acute,
\* U+4E2D and alpha beyond ASCII), beyond (beyond ASCII and not alphabetic:
\* U+20AC, U+00D7, U+0661, U+2030), ascii (ASCII outside the start set)
KeyFirsts ==
    { [kind |-> "start", bytes |-> b]
      : b \in { Bytes(<<"a">>), Bytes(<<"Z">>), Bytes(<<"_">>), Bytes(<<"$">>),
                <<195, 169>>, <<228, 184, 173>>, <<206, 177>> } }
    \cup { [kind |-> "beyond", bytes |-> b]
           : b \in { <<226, 130, 172>>, <<195, 151>>, <<217, 161>>, <<226, 128, 176>> } }
    \cup { [kind |-> "ascii", bytes |-> b]
           : b \in { Bytes(<<"1">>), Bytes(<<"-">>), Bytes(<<"@">>), Bytes(<<".">>) } }

\* code points a bare key goes on over: alphabetic, '_', '$', digits (U+0661
\* beyond ASCII), U+200C, U+200D
KeyConts ==
    { Bytes(<<"b">>), Bytes(<<"9">>), Bytes(<<"_">>), Bytes(<<"$">>), <<195, 169>>,
      <<217, 161>>, <<226, 128, 140>>, <<226, 128, 141>> }

\* what follows the key. kind: colon (the ':' at once or after whitespace, a
\* space or U+00A0), outside (a code point outside the set, ASCII or beyond it)
KeyStops ==
    { [kind |-> "colon", bytes |-> b] : b \in { <<>>, <<bSP>>, <<194, 160>> } }
    \cup { [kind |-> "outside", bytes |-> b]
           : b \in { Bytes(<<"-">>), Bytes(<<"@">>), <<226, 130, 172>>, <<195, 151>> } }

BareKeyCases ==
    { [class |-> "barekey", first |-> f.bytes, firstkind |-> f.kind, cont |-> Flatten(c),
       stop |-> st.bytes, stopkind |-> st.kind,
       pre |-> <<bLBRACE>>, core |-> f.bytes \o Flatten(c) \o st.bytes,
       post |-> Bytes(<<":", "1", "}">>)]
      : f \in KeyFirsts,
        c \in SeqsUpTo(KeyConts, 1)
               \cup { <<Bytes(<<"9">>), <<226, 128, 140>>>>, <<<<217, 161>>, Bytes(<<"b">>)>>,
                      <<<<226, 128, 141>>, <<195, 169>>>>, <<Bytes(<<"$">>), Bytes(<<"_">>)>> },
        st \in KeyStops }

TextCases ==
    EscapeCases \cup RawBreakCases \cup LeadCases \cup BareKeyCases \cup PaddedCases \cup JunkCases \cup EofCases \cup DecimalCases \cup HexCases
    \cup SpecialCases \cup {c \in ObjectCases : c.pairs # <<>> \/ c.post = <<bRBRACE>>}
    \cup SepCases \cup SepExamples

-----------------------------------------------------------------------------
(* Actions: the entry points of the codec *)

NoText == <<>>
\* no MapSerializer is at work
NoSerializer == [map |-> <<>>, pending_key |-> <<>>]
NoResult == [ok |-> FALSE, err |-> [kind |-> "none"]]

\* a caller encodes a Value: json5::to_string(&value)
EncodeValue ==
    /\ phase = "value"
    /\ LET r == to_string(value) IN
       IF r.ok THEN /\ text' = r.val
                    /\ phase' = "text"
                    /\ UNCHANGED result
       ELSE /\ result' = r
            /\ phase' = "failed"
            /\ UNCHANGED text
    /\ parts' = [class |-> "compact"]
    /\ UNCHANGED <<mode, value, text2, typed, other, overflow_checks, frames, serializer, calls, parser_pos>>

\* a caller encodes a Value with indentation: json5::to_string_pretty(&value)
EncodeValuePretty ==
    /\ phase = "value"
    /\ LET r == to_string_pretty(value) IN
       IF r.ok THEN /\ text' = r.val
                    /\ phase' = "text"
                    /\ UNCHANGED result
       ELSE /\ result' = r
            /\ phase' = "failed"
            /\ UNCHANGED text
    /\ parts' = [class |-> "pretty"]
    /\ UNCHANGED <<mode, value, text2, typed, other, overflow_checks, frames, serializer, calls, parser_pos>>

\* a caller encodes a Value with a formatter of its own:
\* ser::serialize_with_formatter(&value, &mut formatter)
EncodeWithFormatter ==
    /\ phase = "formatter"
    /\ LET r == serialize_with_formatter(value, parts) IN
       IF r.ok THEN /\ text' = r.val
                    /\ phase' = "text"
                    /\ UNCHANGED result
       ELSE /\ result' = r
            /\ phase' = "failed"
            /\ UNCHANGED text
    /\ UNCHANGED <<mode, value, parts, text2, typed, other, overflow_checks, frames, serializer, calls, parser_pos>>

\* a caller parses a text: json5::parse_value(text)
ParseValue ==
    /\ phase = "text"
    /\ mode \in {"value", "text"}
    /\ result' = parse_value(text)
    /\ phase' = "parsed"
    /\ UNCHANGED <<mode, value, text, parts, text2, typed, other, overflow_checks, frames, serializer, calls, parser_pos>>

\* the caller encodes the Value it parsed: json5::to_string(&parsed)
ReEncode ==
    /\ phase = "parsed"
    /\ mode \in {"value", "text"}
    /\ result.ok
    /\ LET r == to_string(result.val) IN
       /\ r.ok
       /\ text2' = r.val
    /\ phase' = "reencoded"
    /\ UNCHANGED <<mode, value, text, parts, result, typed, other, overflow_checks, frames, serializer, calls, parser_pos>>

\* the caller encodes the Value it parsed: json5::to_string_pretty(&parsed)
ReEncodePretty ==
    /\ phase = "parsed"
    /\ mode \in {"value", "text"}
    /\ result.ok
    /\ LET r == to_string_pretty(result.val) IN
       /\ r.ok
       /\ text2' = r.val
    /\ phase' = "reencoded_pretty"
    /\ UNCHANGED <<mode, value, text, parts, result, typed, other, overflow_checks, frames, serializer, calls, parser_pos>>

\* a Value for the emitters
InitValue ==
    /\ mode = "value"
    /\ phase = "value"
    /\ value \in Values
    /\ text = NoText
    /\ parts = [class |-> "none"]

\* keys that are identifiers of the emitter, reserved words among them, and
\* keys that are not: empty, a leading digit, punctuation, characters that are
\* escaped, characters beyond ASCII
QuotingKeys ==
    { Bytes(<<"a">>), Bytes(<<"_", "a", "1">>), Bytes(<<"$", "x">>), Bytes(<<"A", "9", "_">>),
      Bytes(<<"n", "u", "l", "l">>), Bytes(<<"t", "r", "u", "e">>), Bytes(<<"N", "a", "N">>),
      Bytes(<<"I", "n", "f", "i", "n", "i", "t", "y">>),
      <<>>, Bytes(<<"1", "a">>), Bytes(<<"9">>), Bytes(<<"a", "-", "b">>),
      Bytes(<<"a", " ", "b">>), Bytes(<<"a", ".", "b">>), Bytes(<<"a", "\"", "b">>),
      Bytes(<<"'">>), Bytes(<<"\\">>), Bytes(<<"a", "\n">>), Bytes(<<"\t">>), <<1>>,
      <<195, 169>>, <<97, 195, 169>>, <<226, 128, 168>>, <<240, 159, 152, 128>>,
      Bytes(<<"a", ":">>), Bytes(<<"/", "/">>) }

KeyObjects ==
    { Object(<< <<k, Number(Number_Int(FALSE, <<1>>))>> >>) : k \in QuotingKeys }
    \cup { Object(<< <<Bytes(<<"a">>), Null>>, <<k, Array(<<>>)>> >>)
           : k \in QuotingKeys \ {Bytes(<<"a">>)} }
    \cup { Object(<< <<k, Object(<< <<k, Null>> >>)>> >>) : k \in QuotingKeys }

\* CompactFormatter::new(quote_keys, None) and PrettyFormatter::new("    ", quote_keys)
KeyFormatters ==
    { [class |-> "keys", formatter |-> "Compact", quote_keys |-> q, max_depth |-> MAX_DEPTH]
      : q \in BOOLEAN }
    \cup { [class |-> "keys", formatter |-> "Pretty", quote_keys |-> q,
            indent_str |-> <<bSP, bSP, bSP, bSP>>] : q \in BOOLEAN }

\* {a: {b: 1}}, [[1, 2], [3, 4]], {items: [{name: 'a', values: [1, 2]}]} and
\* containers that hold empty ones
LayoutValues ==
    LET int(n) == Number(Number_Int(FALSE, <<n>>)) IN
    { Object(<< <<Bytes(<<"a">>), Object(<< <<Bytes(<<"b">>), int(1)>> >>)>> >>),
      Array(<<Array(<<int(1), int(2)>>), Array(<<int(3), int(4)>>)>>),
      Object(<< <<Bytes(<<"i", "t", "e", "m", "s">>),
                 Array(<<Object(<< <<Bytes(<<"n", "a", "m", "e">>), String(Bytes(<<"a">>))>>,
                                   <<Bytes(<<"v", "a", "l", "u", "e", "s">>),
                                     Array(<<int(1), int(2)>>)>> >>)>>)>> >>),
      Array(<<Array(<<>>), Object(<<>>), Array(<<Array(<<>>)>>)>>),
      Object(<< <<Bytes(<<"a">>), Array(<<>>)>>, <<Bytes(<<"b", "-">>), Object(<<>>)>>,
                <<Bytes(<<"c">>), String(Bytes(<<"x", "\n", "y">>))>> >>),
      Array(<<>>), Object(<<>>), int(1) }

\* PrettyFormatter::new with an indent of four spaces, of a tab, of a space
\* and a tab, and with an empty indent
LayoutFormatters ==
    { [class |-> "layout", formatter |-> "Pretty", quote_keys |-> FALSE, indent_str |-> ind]
      : ind \in { <<bSP, bSP, bSP, bSP>>, <<bTAB>>, <<bSP, bTAB>>, <<>> } }

\* indent strings of white space: of characters the parser skips between
\* tokens (space, tab, LF, CR, U+00A0, U+2028, U+2029, U+2003), and of form
\* feed, vertical tab, U+0085, U+1680 and U+3000
WhiteSpaceIndents ==
    { [kind |-> "skipped", bytes |-> b]
      : b \in { <<>>, <<bSP, bSP>>, <<bTAB>>, <<bLF>>, <<bCR, bLF>>, <<194, 160>>,
                <<226, 128, 168>>, <<226, 128, 169>>, <<226, 128, 131>> } }
    \cup { [kind |-> "refused", bytes |-> b]
           : b \in { <<12>>, <<11>>, <<194, 133>>, <<225, 154, 128>>, <<227, 128, 128>> } }

\* every leaf inside an array, every kind of key inside an object, and the
\* Values of the layout and key cases
EquivValues ==
    Leaves
    \cup {Array(<<Null, l>>) : l \in Leaves}
    \cup {Object(<<<<k, Bool(TRUE)>>, <<Bytes(<<"z">>), Array(<<>>)>> >>) : k \in KeyLeaves}
    \cup LayoutValues
    \cup { Object(<< <<k, Object(<< <<k, Null>> >>)>> >>) : k \in QuotingKeys }

\* PrettyFormatter::new(indent, quote_keys) for the indents of white space
EquivFormatters ==
    { [class |-> "equiv", formatter |-> "Pretty", quote_keys |-> q, indent_str |-> i.bytes,
       indent_kind |-> i.kind] : q \in BOOLEAN, i \in WhiteSpaceIndents }

\* a Value and a formatter for serialize_with_formatter
InitFormatter ==
    /\ phase = "formatter"
    /\ \/ mode = "value" /\ value \in KeyObjects /\ parts \in KeyFormatters
       \/ mode = "value" /\ value \in LayoutValues /\ parts \in LayoutFormatters
       \/ mode = "emitters" /\ value \in EquivValues /\ parts \in EquivFormatters
    /\ text = NoText

\* a text for the parser
InitText ==
    /\ mode = "text"
    /\ phase = "text"
    /\ value = Null
    /\ parts \in TextCases
    /\ text = parts.pre \o parts.core \o parts.post

Init ==
    /\ InitValue \/ InitText \/ InitFormatter
    /\ result = NoResult
    /\ text2 = NoText
    /\ typed = Null
    /\ other = Null
    /\ overflow_checks \in BOOLEAN
    /\ frames = <<>>
    /\ serializer = NoSerializer
    /\ calls = <<>>
    /\ parser_pos = 0

Next ==
    \/ EncodeValue \/ EncodeValuePretty \/ EncodeWithFormatter
    \/ ParseValue \/ ReEncode \/ ReEncodePretty

Spec == Init /\ [][Next]_vars

-----------------------------------------------------------------------------
(* The emitters step by step: the recursion of write_value, write_array and
   write_object as activations on a stack. ser::serialize and
   serialize_with_formatter have built the Value and the empty out String; the
   steps are those of formatter.write_value(&mut out, &value, 0) *)

\* A Value given by its shape: n containers (arrays, or objects of the one key
\* k) around a leaf. Unfold gives its outermost container, Expand the whole tree.
Chain(n, obj, leaf) == [t |-> "Chain", n |-> n, obj |-> obj, leaf |-> leaf]

Unfold(v) ==
    IF v.t # "Chain" THEN v
    ELSE IF v.n = 0 THEN v.leaf
    ELSE IF v.obj THEN Object(<< <<Bytes(<<"k">>), Chain(v.n - 1, v.obj, v.leaf)>> >>)
    ELSE Array(<<Chain(v.n - 1, v.obj, v.leaf)>>)

RECURSIVE Expand(_)
Expand(v) ==
    IF v.t # "Chain" THEN v
    ELSE IF v.n = 0 THEN v.leaf
    ELSE IF v.obj THEN Object(<< <<Bytes(<<"k">>), Expand(Chain(v.n - 1, v.obj, v.leaf))>> >>)
    ELSE Array(<<Expand(Chain(v.n - 1, v.obj, v.leaf))>>)

\* the activation of Formatter::write_value(out, v, depth) at its entry
ValueFrame(v, depth) == [f |-> "write_value", v |-> v, depth |-> depth]

\* the activation of write_array / write_object in its loop: rest are the items
\* the iterator has not yielded yet, i is the number of items it has yielded,
\* len the length of the container
ItemsFrame(obj, rest, i, len, depth) ==
    [f |-> "write_items", obj |-> obj, rest |-> rest, i |-> i, len |-> len, depth |-> depth]

Top == frames[Len(frames)]
\* the Value the activation on top was called with
TopValue == Unfold(Top.v)
Pop == SubSeq(frames, 1, Len(frames) - 1)
\* the callee returns into the activation below it; the last return is that of
\* write_value into serialize, which returns Ok(out)
Returned(fs) == IF fs = <<>> THEN "text" ELSE "writing"

\* CompactFormatter::write_value: the depth check and the match on v
CompactWriteValue ==
    /\ mode = "emit" /\ phase = "writing" /\ parts.formatter = "Compact"
    /\ Top.f = "write_value"
    /\ IF Top.depth > parts.max_depth
       THEN \* every caller returns the error with ?, serialize drops out
            /\ result' = Err(Custom("Recursion limit exceeded"))
            /\ frames' = <<>>
            /\ text' = NoText
            /\ phase' = "failed"
       ELSE /\ IF TopValue.t = "Array"
               THEN /\ text' = Append(text, bLBRACKET)
                    /\ frames' = Append(Pop, ItemsFrame(FALSE, TopValue.a, 0, Len(TopValue.a),
                                                        Top.depth))
               ELSE IF TopValue.t = "Object"
               THEN /\ text' = Append(text, bLBRACE)
                    /\ frames' = Append(Pop, ItemsFrame(TRUE, TopValue.m, 0, Len(TopValue.m),
                                                        Top.depth))
               ELSE /\ text' = text \o Compact_write_value(TopValue, Top.depth, parts.quote_keys,
                                                           parts.max_depth).val
                    /\ frames' = Pop
            /\ phase' = Returned(frames')
            /\ UNCHANGED result
    /\ UNCHANGED <<mode, value, parts, text2, typed, other, overflow_checks, serializer, calls, parser_pos>>

\* CompactFormatter::write_array / write_object: one turn of the loop, or the
\* closing bracket
CompactWriteItems ==
    /\ mode = "emit" /\ phase = "writing" /\ parts.formatter = "Compact"
    /\ Top.f = "write_items"
    /\ IF Top.rest = <<>>
       THEN /\ text' = Append(text, IF Top.obj THEN bRBRACE ELSE bRBRACKET)
            /\ frames' = Pop
       ELSE /\ text' = text \o (IF Top.i > 0 THEN <<bCOMMA>> ELSE <<>>)
                            \o (IF Top.obj
                                THEN write_object_key(Top.rest[1][1], parts.quote_keys)
                                     \o <<bCOLON>>
                                ELSE <<>>)
            /\ frames' = Pop \o << ItemsFrame(Top.obj, Tail(Top.rest), Top.i + 1, Top.len,
                                              Top.depth),
                                   ValueFrame(IF Top.obj THEN Top.rest[1][2] ELSE Top.rest[1],
                                              Top.depth + 1) >>
    /\ phase' = Returned(frames')
    /\ UNCHANGED <<mode, value, parts, result, text2, typed, other, overflow_checks, serializer, calls, parser_pos>>

\* PrettyFormatter::write_value: the match on v; write_array and write_object up
\* to their loop
PrettyWriteValue ==
    /\ mode = "emit" /\ phase = "writing" /\ parts.formatter = "Pretty"
    /\ Top.f = "write_value"
    /\ IF TopValue.t = "Array" /\ TopValue.a # <<>>
       THEN /\ text' = text \o <<bLBRACKET, bLF>>
            /\ frames' = Append(Pop, ItemsFrame(FALSE, TopValue.a, 0, Len(TopValue.a), Top.depth))
       ELSE IF TopValue.t = "Object" /\ TopValue.m # <<>>
       THEN /\ text' = text \o <<bLBRACE, bLF>>
            /\ frames' = Append(Pop, ItemsFrame(TRUE, TopValue.m, 0, Len(TopValue.m), Top.depth))
       ELSE /\ text' = text \o Pretty_write_value(TopValue, Top.depth, parts.indent_str,
                                                  parts.quote_keys).val
            /\ frames' = Pop
    /\ phase' = Returned(frames')
    /\ UNCHANGED <<mode, value, parts, result, text2, typed, other, overflow_checks, serializer, calls, parser_pos>>

\* PrettyFormatter::write_array / write_object: what follows the element that was
\* written, then the next turn of the loop, or the closing bracket
PrettyWriteItems ==
    /\ mode = "emit" /\ phase = "writing" /\ parts.formatter = "Pretty"
    /\ Top.f = "write_items"
    /\ LET after == IF Top.i = 0 THEN <<>>
                    ELSE (IF Top.i - 1 < Top.len - 1 THEN <<bCOMMA>> ELSE <<>>) \o <<bLF>>
       IN IF Top.rest = <<>>
          THEN /\ text' = text \o after \o write_indent(parts.indent_str, Top.depth)
                               \o <<IF Top.obj THEN bRBRACE ELSE bRBRACKET>>
               /\ frames' = Pop
          ELSE /\ text' = text \o after \o write_indent(parts.indent_str, Top.depth + 1)
                               \o (IF Top.obj
                                   THEN write_object_key(Top.rest[1][1], parts.quote_keys)
                                        \o <<bCOLON, bSP>>
                                   ELSE <<>>)
               /\ frames' = Pop \o << ItemsFrame(Top.obj, Tail(Top.rest), Top.i + 1, Top.len,
                                                 Top.depth),
                                      ValueFrame(IF Top.obj THEN Top.rest[1][2]
                                                 ELSE Top.rest[1], Top.depth + 1) >>
    /\ phase' = Returned(frames')
    /\ UNCHANGED <<mode, value, parts, result, text2, typed, other, overflow_checks, serializer, calls, parser_pos>>

\* the number of containers around the innermost value of a tree
RECURSIVE NestingDepth(_)
NestingDepth(v) ==
    IF v.t = "Array" /\ v.a # <<>>
    THEN 1 + NestingDepth(v.a[CHOOSE i \in 1..Len(v.a) :
                                  \A j \in 1..Len(v.a) :
                                      NestingDepth(v.a[j]) <= NestingDepth(v.a[i])])
    ELSE IF v.t = "Object" /\ v.m # <<>>
    THEN 1 + NestingDepth(v.m[CHOOSE i \in 1..Len(v.m) :
                                  \A j \in 1..Len(v.m) :
                                      NestingDepth(v.m[j][2]) <= NestingDepth(v.m[i][2])][2])
    ELSE 0

\* trees nested as deep as the limit of the compact emitter and deeper, and the
\* same shape at small depths, ...
DeepCases ==
    { [v |-> Chain(n, o, leaf), nesting |-> n]
        : n \in 0..(MaxElems + 1)
                \cup {MAX_DEPTH - 1, MAX_DEPTH, MAX_DEPTH + 1, MAX_DEPTH + 2},
          o \in BOOLEAN, leaf \in {Null, Array(<<>>)} }

\* ... and trees of every shape
ShallowCases ==
    { [v |-> v, nesting |-> NestingDepth(v)] : v \in Arrays1 \cup Objects1 \cup Nested }

\* CompactFormatter::new(false, None) of ser::serialize, and PrettyFormatter::new
\* with the indent of to_string_pretty and with an empty indent
Formatters ==
    { [class |-> "emit", formatter |-> "Compact", quote_keys |-> FALSE,
       max_depth |-> MAX_DEPTH],
      [class |-> "emit", formatter |-> "Pretty", quote_keys |-> FALSE,
       indent_str |-> <<bSP, bSP, bSP, bSP>>],
      [class |-> "emit", formatter |-> "Pretty", quote_keys |-> FALSE, indent_str |-> <<>>] }

InitEmit ==
    /\ mode = "emit"
    /\ phase = "writing"
    /\ \E c \in DeepCases \cup ShallowCases, fm \in Formatters :
          /\ c.nesting > MaxElems + 1 => (fm.formatter = "Pretty" => fm.indent_str = <<>>)
          /\ value = c.v
          /\ parts = [fm EXCEPT !.class = "emit"] @@ [nesting |-> c.nesting]
    /\ frames = <<ValueFrame(value, 0)>>
    /\ serializer = NoSerializer
    /\ calls = <<>>
    /\ parser_pos = 0
    /\ text = NoText
    /\ result = NoResult
    /\ text2 = NoText
    /\ typed = Null
    /\ other = Null
    /\ overflow_checks \in {FALSE}

NextEmit == CompactWriteValue \/ CompactWriteItems \/ PrettyWriteValue \/ PrettyWriteItems

SpecEmit == InitEmit /\ [][NextEmit]_vars

-----------------------------------------------------------------------------
(* Typed values: a Rust type and a value of it *)

TUnit == [ty |-> "unit"]
TBool == [ty |-> "bool"]
TI32 == [ty |-> "i32"]
TU8 == [ty |-> "u8"]
TF64 == [ty |-> "f64"]
TString == [ty |-> "string"]
\* a type that serializes with serialize_bytes and deserializes with
\* deserialize_byte_buf (a byte buffer, a CString)
TBytes == [ty |-> "bytes"]
TUnitStruct == [ty |-> "unit_struct"]
TOption(T) == [ty |-> "option", of |-> T]
TSeq(T) == [ty |-> "seq", of |-> T]
TNewtype(T) == [ty |-> "newtype", of |-> T]
\* a map from String keys to T (HashMap<String, T>, BTreeMap<String, T>)
TMap(T) == [ty |-> "map", of |-> T]
TTuple(Ts) == [ty |-> "tuple", of |-> Ts]
\* fields: <<name, type>> in declaration order
TStruct(fields) == [ty |-> "struct", fields |-> fields]
\* variants: [name, kind, of] with kind unit / newtype / tuple / struct
TEnum(variants) == [ty |-> "enum", variants |-> variants]

DUnit == [d |-> "unit"]
DBool(b) == [d |-> "bool", b |-> b]
DInt(neg, mag) == [d |-> "int", neg |-> neg /\ mag # <<0>>, mag |-> mag]
DFloat(f) == [d |-> "float", f |-> f]
DStr(x) == [d |-> "str", s |-> x]
DBytes(bs) == [d |-> "bytes", bs |-> bs]
DNone == [d |-> "none"]
DSome(x) == [d |-> "some", x |-> x]
DNewtype(x) == [d |-> "newtype", x |-> x]
\* the elements of a sequence or tuple, the field values of a struct
DSeq(xs) == [d |-> "seq", xs |-> xs]
DVariant(name, x) == [d |-> "variant", name |-> name, x |-> x]
\* the entries <<key, data>> of a map
DMap(xs) == [d |-> "map", xs |-> xs]

VariantNamed(T, name) ==
    T.variants[CHOOSE i \in 1..Len(T.variants) : T.variants[i].name = name]

RECURSIVE NatDigits(_)
NatDigits(n) == IF n < 10 THEN <<n>> ELSE NatDigits(n \div 10) \o <<n % 10>>

RECURSIVE Serialize(_, _), SerializeFields(_, _, _)
\* T::serialize(ValueSerializer): the Value the serializer builds
Serialize(T, d) ==
    CASE T.ty \in {"unit", "unit_struct"} -> Null
      [] T.ty = "bool" -> Bool(d.b)
      [] T.ty = "i32" -> Number(Number_Int(d.neg, d.mag))
      [] T.ty = "u8" -> Number(Number_Uint(d.mag))
      [] T.ty = "f64" -> Number(serialize_f64(d.f))
      [] T.ty = "string" -> String(d.s)
      [] T.ty = "bytes" ->
            Array([i \in 1..Len(d.bs) |-> Number(Number_Uint(NatDigits(d.bs[i])))])
      [] T.ty = "option" -> IF d.d = "none" THEN Null ELSE Serialize(T.of, d.x)
      [] T.ty = "newtype" -> Serialize(T.of, d.x)
      [] T.ty = "seq" -> Array([i \in 1..Len(d.xs) |-> Serialize(T.of, d.xs[i])])
      [] T.ty = "tuple" -> Array([i \in 1..Len(d.xs) |-> Serialize(T.of[i], d.xs[i])])
      [] T.ty = "struct" -> Object(SerializeFields(T.fields, d.xs, <<>>))
      [] T.ty = "enum" ->
            LET v == VariantNamed(T, d.name) IN
            CASE v.kind = "unit" -> String(v.name)
              [] v.kind = "newtype" -> Object(<< <<v.name, Serialize(v.of, d.x)>> >>)
              [] v.kind = "tuple" ->
                    Object(<< <<v.name,
                                Array([i \in 1..Len(d.x.xs) |->
                                          Serialize(v.of[i], d.x.xs[i])])>> >>)
              [] v.kind = "struct" ->
                    Object(<< <<v.name, Object(SerializeFields(v.of, d.x.xs, <<>>))>> >>)

\* SerializeStruct / SerializeStructVariant: serialize_field for each field
SerializeFields(fields, xs, acc) ==
    IF fields = <<>> THEN acc
    ELSE SerializeFields(Tail(fields), Tail(xs),
                         MapInsert(acc, fields[1][1], Serialize(fields[1][2], xs[1])))

\* ser::serialize for a typed value: build the Value, write it compactly
serialize_typed(T, d) == Compact_write_value(Serialize(T, d), 0, FALSE, MAX_DEPTH)

-----------------------------------------------------------------------------
(* Decode adapter: T::deserialize(ValueDeserializer) *)

type_name(v) ==
    CASE v.t = "Null" -> "null"
      [] v.t = "Bool" -> "bool"
      [] v.t = "Number" -> "number"
      [] v.t = "String" -> "string"
      [] v.t = "Array" -> "array"
      [] v.t = "Object" -> "object"

I32Max == <<2, 1, 4, 7, 4, 8, 3, 6, 4, 7>>
I32MinMag == <<2, 1, 4, 7, 4, 8, 3, 6, 4, 8>>
U8Max == <<2, 5, 5>>
I8Max == <<1, 2, 7>>
I8MinMag == <<1, 2, 8>>
I16Max == <<3, 2, 7, 6, 7>>
I16MinMag == <<3, 2, 7, 6, 8>>
I128Max == <<1, 7, 0, 1, 4, 1, 1, 8, 3, 4, 6, 0, 4, 6, 9, 2, 3, 1, 7, 3,
             1, 6, 8, 7, 3, 0, 3, 7, 1, 5, 8, 8, 4, 1, 0, 5, 7, 2, 7>>
I128MinMag == <<1, 7, 0, 1, 4, 1, 1, 8, 3, 4, 6, 0, 4, 6, 9, 2, 3, 1, 7, 3,
                1, 6, 8, 7, 3, 0, 3, 7, 1, 5, 8, 8, 4, 1, 0, 5, 7, 2, 8>>
U16Max == <<6, 5, 5, 3, 5>>
U32Max == <<4, 2, 9, 4, 9, 6, 7, 2, 9, 5>>
U128Max == <<3, 4, 0, 2, 8, 2, 3, 6, 6, 9, 2, 0, 9, 3, 8, 4, 6, 3, 4, 6,
             3, 3, 7, 4, 6, 0, 7, 4, 3, 1, 7, 6, 8, 2, 1, 1, 4, 5, 5>>

IntTypes == {"i8", "i16", "i32", "i64", "i128"}
UintTypes == {"u8", "u16", "u32", "u64", "u128"}

\* T::MAX and the magnitude of T::MIN of the integer types
IntMax(ty) ==
    CASE ty = "i8" -> I8Max [] ty = "i16" -> I16Max [] ty = "i32" -> I32Max
      [] ty = "i64" -> I64Max [] ty = "i128" -> I128Max
      [] ty = "u8" -> U8Max [] ty = "u16" -> U16Max [] ty = "u32" -> U32Max
      [] ty = "u64" -> U64Max [] ty = "u128" -> U128Max
IntMinMag(ty) ==
    CASE ty = "i8" -> I8MinMag [] ty = "i16" -> I16MinMag [] ty = "i32" -> I32MinMag
      [] ty = "i64" -> I64MinMag [] ty = "i128" -> I128MinMag
      [] OTHER -> <<0>>

\* f as i64: truncation toward zero, NaN is 0, out of range saturates
F64AsI64(f) ==
    CASE f.c = "nan" -> [neg |-> FALSE, mag |-> <<0>>]
      [] f.c = "inf" -> [neg |-> f.neg, mag |-> IF f.neg THEN I64MinMag ELSE I64Max]
      [] OTHER ->
            LET lim == IF f.neg THEN I64MinMag ELSE I64Max IN
            [neg |-> f.neg /\ f.int # <<0>>,
             mag |-> IF BigLe(f.int, lim) THEN f.int ELSE lim]

\* f as u64 for f >= 0.0
F64AsU64(f) ==
    CASE f.c = "inf" -> U64Max
      [] OTHER -> IF BigLe(f.int, U64Max) THEN f.int ELSE U64Max

\* f >= 0.0 (false of a NaN, true of -0.0)
F64NonNegative(f) ==
    CASE f.c = "nan" -> FALSE
      [] f.c = "inf" -> ~f.neg
      [] OTHER -> ~f.neg \/ (f.int = <<0>> /\ f.frac = <<>>)

\* T::try_from(n) of an i64 or u64 n, the error mapped to Custom
TryFrom(ty, neg, mag) ==
    IF (~neg /\ BigLe(mag, IntMax(ty))) \/ (neg /\ BigLe(mag, IntMinMag(ty)))
    THEN Ok(DInt(neg, mag), 0)
    ELSE Err(Custom("integer overflow"))

\* num_to_int::<T> for the signed type ty
num_to_int(ty, v) ==
    IF v.t # "Number" THEN Err(TypeMismatch("integer", type_name(v)))
    ELSE CASE v.n.k = "Int" -> TryFrom(ty, v.n.neg, v.n.mag)
           [] v.n.k = "Uint" -> TryFrom(ty, FALSE, v.n.mag)
           [] v.n.k = "Float" -> TryFrom(ty, F64AsI64(v.n.f).neg, F64AsI64(v.n.f).mag)
           [] OTHER -> Err(TypeMismatch("integer", type_name(v)))

\* num_to_uint::<T> for the unsigned type ty
num_to_uint(ty, v) ==
    IF v.t # "Number" THEN Err(TypeMismatch("unsigned int", type_name(v)))
    ELSE CASE v.n.k = "Uint" -> TryFrom(ty, FALSE, v.n.mag)
           [] v.n.k = "Int" /\ ~v.n.neg -> TryFrom(ty, FALSE, v.n.mag)
           [] v.n.k = "Float" /\ F64NonNegative(v.n.f) -> TryFrom(ty, FALSE, F64AsU64(v.n.f))
           [] OTHER -> Err(TypeMismatch("unsigned int", type_name(v)))

\* Number::as_f64 (the model keeps the digits of an integer as they are)
as_f64(n) ==
    CASE n.k = "Int" -> Fin(n.neg, n.mag, <<>>)
      [] n.k = "Uint" -> Fin(FALSE, n.mag, <<>>)
      [] n.k = "Float" -> n.f
      [] n.k = "NaN" -> FNaN
      [] n.k = "Infinity" -> FInf(FALSE)
      [] n.k = "NegInfinity" -> FInf(TRUE)

deserialize_f64(v) ==
    IF v.t = "Number" THEN Ok(DFloat(as_f64(v.n)), 0)
    ELSE Err(TypeMismatch("f64", type_name(v)))

deserialize_bool(v) ==
    IF v.t = "Bool" THEN Ok(DBool(v.b), 0) ELSE Err(TypeMismatch("bool", type_name(v)))

deserialize_string(v) ==
    CASE v.t = "String" -> Ok(DStr(v.s), 0)
      [] v.t = "Number" -> Ok(DStr(DisplayNumber(v.n)), 0)
      [] v.t = "Bool" -> Ok(DStr(IF v.b THEN Bytes(<<"t", "r", "u", "e">>)
                                 ELSE Bytes(<<"f", "a", "l", "s", "e">>)), 0)
      [] v.t = "Null" -> Ok(DStr(Bytes(<<"n", "u", "l", "l">>)), 0)
      [] OTHER -> Err(TypeMismatch("string", type_name(v)))

deserialize_byte_buf(v) ==
    IF v.t = "String" THEN Ok(DBytes(v.s), 0)
    ELSE Err(TypeMismatch("byte_buf", type_name(v)))

deserialize_unit(v) ==
    IF v.t = "Null" THEN Ok(DUnit, 0) ELSE Err(TypeMismatch("null", type_name(v)))

\* the first error among the results, or all their values
Collect(rs) ==
    IF \E i \in 1..Len(rs) : ~rs[i].ok
    THEN rs[CHOOSE i \in 1..Len(rs) : ~rs[i].ok /\ \A j \in 1..(i - 1) : rs[j].ok]
    ELSE Ok([i \in 1..Len(rs) |-> rs[i].val], 0)

FieldIndex(fields, k) ==
    IF \E j \in 1..Len(fields) : fields[j][1] = k
    THEN CHOOSE j \in 1..Len(fields) : fields[j][1] = k
    ELSE 0

RECURSIVE Deserialize(_, _), visit_seq(_, _), visit_map(_, _), deserialize_enum(_, _)
RECURSIVE visit_entries(_, _)
\* T::deserialize(ValueDeserializer::new(v)): Ok(data) or the error
Deserialize(T, v) ==
    CASE T.ty \in {"unit", "unit_struct"} -> deserialize_unit(v)
      [] T.ty = "bool" -> deserialize_bool(v)
      [] T.ty \in IntTypes -> num_to_int(T.ty, v)
      [] T.ty \in UintTypes -> num_to_uint(T.ty, v)
      [] T.ty = "f64" -> deserialize_f64(v)
      [] T.ty = "string" -> deserialize_string(v)
      [] T.ty = "bytes" -> deserialize_byte_buf(v)
      [] T.ty = "option" ->
            IF v.t = "Null" THEN Ok(DNone, 0)
            ELSE The({ IF r.ok THEN Ok(DSome(r.val), 0) ELSE r
                       : r \in {Deserialize(T.of, v)} })
      [] T.ty = "newtype" ->
            The({ IF r.ok THEN Ok(DNewtype(r.val), 0) ELSE r
                  : r \in {Deserialize(T.of, v)} })
      [] T.ty = "seq" ->
            IF v.t = "Array" THEN visit_seq([i \in 1..Len(v.a) |-> T.of], v.a)
            ELSE Err(TypeMismatch("array", type_name(v)))
      [] T.ty = "tuple" ->
            IF v.t = "Array" THEN visit_seq(T.of, v.a)
            ELSE Err(TypeMismatch("array", type_name(v)))
      [] T.ty = "map" ->
            IF v.t = "Object" THEN visit_entries(T.of, v.m)
            ELSE Err(TypeMismatch("object", type_name(v)))
      [] T.ty = "struct" ->
            CASE v.t = "Object" -> visit_map(T.fields, v.m)
              [] v.t = "Array" -> visit_seq([j \in 1..Len(T.fields) |-> T.fields[j][2]], v.a)
              [] OTHER -> Err(TypeMismatch("object", type_name(v)))
      [] T.ty = "enum" -> deserialize_enum(T, v)

\* a visitor that reads one element per type from SeqDeserializer
visit_seq(Ts, a) ==
    IF Len(a) < Len(Ts) THEN Err(Custom("invalid length"))
    ELSE The({ IF r.ok THEN Ok(DSeq(r.val), 0) ELSE r
               : r \in {Collect([i \in 1..Len(Ts) |-> Deserialize(Ts[i], a[i])])} })

\* the visitor of a map reading MapDeserializer: every entry in stored order,
\* next_key_seed with the key as a String, next_value_seed with the value
visit_entries(T, m) ==
    The({ IF r.ok THEN Ok(DMap([i \in 1..Len(m) |-> <<m[i][1], r.val[i]>>]), 0) ELSE r
          : r \in {Collect([i \in 1..Len(m) |-> Deserialize(T, m[i][2])])} })

\* the visitor of a struct reading MapDeserializer: the entries in stored
\* order, keys that name no field skipped; then a field without an entry is
\* None when it is an Option and an error otherwise
visit_map(fields, m) ==
    The({
        IF ~entries.ok THEN entries
        ELSE The({ IF r.ok THEN Ok(DSeq(r.val), 0) ELSE r
                   : r \in {Collect([j \in 1..Len(fields) |->
                                IF MapIndexOf(m, fields[j][1]) # 0
                                THEN Ok(entries.val[MapIndexOf(m, fields[j][1])], 0)
                                ELSE IF fields[j][2].ty = "option" THEN Ok(DNone, 0)
                                ELSE Err(Custom("missing field"))])} })
        : entries \in {Collect([i \in 1..Len(m) |->
              IF FieldIndex(fields, m[i][1]) = 0 THEN Ok(DUnit, 0)
              ELSE Deserialize(fields[FieldIndex(fields, m[i][1])][2], m[i][2])])} })

\* deserialize_enum without the test of the number of entries of an Object
deserialize_enum_AnyLen(T, v) ==
    LET known(name) == \E i \in 1..Len(T.variants) : T.variants[i].name = name
        wrap(name, res) == The({ IF r.ok THEN Ok(DVariant(name, r.val), 0) ELSE r
                                 : r \in {res} })
    IN CASE v.t = "String" ->
              IF ~known(v.s) THEN Err(Custom("unknown variant"))
              ELSE IF VariantNamed(T, v.s).kind = "unit" THEN Ok(DVariant(v.s, DUnit), 0)
              ELSE Err(Custom("expected unit variant"))
         [] v.t = "Object" ->
              IF Len(v.m) = 0 THEN Err(Custom("enum object must have exactly one key"))
              ELSE IF ~known(v.m[1][1]) THEN Err(Custom("unknown variant"))
              ELSE LET name == v.m[1][1]
                       var == VariantNamed(T, name)
                       x == v.m[1][2]
                   IN (CASE var.kind = "unit" ->
                             IF x.t = "Null" THEN Ok(DVariant(name, DUnit), 0)
                             ELSE Err(Custom("expected null for unit variant"))
                        [] var.kind = "newtype" -> wrap(name, Deserialize(var.of, x))
                        [] var.kind = "tuple" ->
                             IF x.t = "Array" THEN wrap(name, visit_seq(var.of, x.a))
                             ELSE Err(TypeMismatch("array", type_name(x)))
                        [] var.kind = "struct" ->
                             IF x.t = "Object" THEN wrap(name, visit_map(var.of, x.m))
                             ELSE Err(TypeMismatch("object", type_name(x))))
         [] OTHER -> Err(TypeMismatch("enum", type_name(v)))

\* ValueDeserializer::deserialize_enum with UnitVariantAccess / EnumDeserializer
deserialize_enum(T, v) ==
    LET known(name) == \E i \in 1..Len(T.variants) : T.variants[i].name = name
        wrap(name, res) == The({ IF r.ok THEN Ok(DVariant(name, r.val), 0) ELSE r
                                 : r \in {res} })
    IN CASE v.t = "String" ->
              IF ~known(v.s) THEN Err(Custom("unknown variant"))
              ELSE IF VariantNamed(T, v.s).kind = "unit" THEN Ok(DVariant(v.s, DUnit), 0)
              ELSE Err(Custom("expected unit variant"))
         [] v.t = "Object" ->
              IF Len(v.m) # 1 THEN Err(Custom("enum object must have exactly one key"))
              ELSE IF ~known(v.m[1][1]) THEN Err(Custom("unknown variant"))
              ELSE LET name == v.m[1][1]
                       var == VariantNamed(T, name)
                       x == v.m[1][2]
                   IN (CASE var.kind = "unit" ->
                             IF x.t = "Null" THEN Ok(DVariant(name, DUnit), 0)
                             ELSE Err(Custom("expected null for unit variant"))
                        [] var.kind = "newtype" -> wrap(name, Deserialize(var.of, x))
                        [] var.kind = "tuple" ->
                             IF x.t = "Array" THEN wrap(name, visit_seq(var.of, x.a))
                             ELSE Err(TypeMismatch("array", type_name(x)))
                        [] var.kind = "struct" ->
                             IF x.t = "Object" THEN wrap(name, visit_map(var.of, x.m))
                             ELSE Err(TypeMismatch("object", type_name(x))))
         [] OTHER -> Err(TypeMismatch("enum", type_name(v)))

\* T::deserialize(Deserializer::from_str(input)) for a bool, a string and an
\* optional target: deserialize_bool, deserialize_str / deserialize_string and
\* deserialize_option read one value with Parser::parse_value and look at
\* nothing after it
Deserializer_deserialize(T, input) ==
    The({ IF ~val.ok THEN val
          ELSE CASE T.ty = "bool" ->
                      IF val.val.t = "Bool" THEN Ok(DBool(val.val.b), 0)
                      ELSE Err(TypeMismatch("bool", type_name(val.val)))
                 [] T.ty = "string" ->
                      IF val.val.t = "String" THEN Ok(DStr(val.val.s), 0)
                      ELSE Err(TypeMismatch("str", type_name(val.val)))
                 [] T.ty = "option" ->
                      IF val.val.t = "Null" THEN Ok(DNone, 0)
                      ELSE The({ IF r.ok THEN Ok(DSome(r.val), 0) ELSE r
                                 : r \in {Deserialize(T.of, val.val)} })
          : val \in {Parser_parse_value(input, 0)} })

\* json5::from_str::<T>
from_str(T, input) ==
    The({ IF ~value0.ok THEN value0 ELSE Deserialize(T, value0.val)
          : value0 \in {parse_value(input)} })

-----------------------------------------------------------------------------
(* The cases: typed values handed to to_string *)

Typed(T, d) == [type |-> T, data |-> d]

TypedStrings ==
    { <<>>, Bytes(<<"t", "e", "s", "t">>), Bytes(<<"a", "\n", "b">>), Bytes(<<"\t">>),
      Bytes(<<"q", "\"">>), Bytes(<<"\\", "n">>), Bytes(<<"n", "u", "l", "l">>),
      <<240, 159, 152, 128>>, Bytes(<<"4", "2">>) }

BaseCases ==
    { Typed(TUnit, DUnit), Typed(TUnitStruct, DUnit), Typed(TBool, DBool(TRUE)),
      Typed(TBool, DBool(FALSE)),
      Typed(TI32, DInt(FALSE, <<4, 2>>)), Typed(TI32, DInt(FALSE, <<0>>)),
      Typed(TI32, DInt(TRUE, I32MinMag)), Typed(TI32, DInt(FALSE, I32Max)),
      Typed(TU8, DInt(FALSE, <<0>>)), Typed(TU8, DInt(FALSE, U8Max)),
      Typed(TF64, DFloat(Fin(FALSE, <<1>>, <<1>>))),
      Typed(TF64, DFloat(Fin(TRUE, <<2>>, <<>>))),
      Typed(TBytes, DBytes(<<>>)), Typed(TBytes, DBytes(<<0, 104, 255>>)) }
    \cup {Typed(TString, DStr(x)) : x \in TypedStrings}

nRequired == Bytes(<<"r", "e", "q", "u", "i", "r", "e", "d">>)
nOptional == Bytes(<<"o", "p", "t", "i", "o", "n", "a", "l">>)
TRecord(T) == TStruct(<< <<nRequired, T>>, <<nOptional, TOption(T)>> >>)

\* enum Message { Quit, Move { x: i32, y: i32 }, Write(String), Color(u8, u8, u8) }
nQuit == Bytes(<<"Q", "u", "i", "t">>)
nMove == Bytes(<<"M", "o", "v", "e">>)
nWrite == Bytes(<<"W", "r", "i", "t", "e">>)
nColor == Bytes(<<"C", "o", "l", "o", "r">>)
TMessage(T) ==
    TEnum(<< [name |-> nQuit, kind |-> "unit", of |-> <<>>],
             [name |-> nMove, kind |-> "struct",
              of |-> << <<Bytes(<<"x">>), TI32>>, <<Bytes(<<"y">>), TI32>> >>],
             [name |-> nWrite, kind |-> "newtype", of |-> T],
             [name |-> nColor, kind |-> "tuple", of |-> <<TU8, TU8, TU8>>] >>)

\* struct Complex { name: String, values: Vec<f64>, nested: Option<Inner>, flag: bool }
TInner ==
    TStruct(<< <<Bytes(<<"n", "a", "m", "e">>), TString>>,
               <<Bytes(<<"v", "a", "l", "u", "e", "s">>), TSeq(TF64)>>,
               <<Bytes(<<"n", "e", "s", "t", "e", "d">>), TOption(TUnitStruct)>>,
               <<Bytes(<<"f", "l", "a", "g">>), TBool>> >>)
TComplex ==
    TStruct(<< <<Bytes(<<"n", "a", "m", "e">>), TString>>,
               <<Bytes(<<"v", "a", "l", "u", "e", "s">>), TSeq(TF64)>>,
               <<Bytes(<<"n", "e", "s", "t", "e", "d">>), TOption(TInner)>>,
               <<Bytes(<<"f", "l", "a", "g">>), TBool>> >>)
DInner ==
    DSeq(<<DStr(Bytes(<<"i", "n", "n", "e", "r">>)), DSeq(<<>>), DNone, DBool(FALSE)>>)

TypedCases ==
    BaseCases
    \cup {Typed(TOption(c.type), DSome(c.data)) : c \in BaseCases}
    \cup {Typed(TOption(c.type), DNone) : c \in BaseCases}
    \cup {Typed(TOption(TOption(c.type)), DSome(DSome(c.data))) : c \in BaseCases}
    \cup {Typed(TOption(TOption(c.type)), DSome(DNone)) : c \in BaseCases}
    \cup {Typed(TSeq(c.type), DSeq(<<c.data, c.data>>)) : c \in BaseCases}
    \cup {Typed(TSeq(c.type), DSeq(<<>>)) : c \in BaseCases}
    \cup {Typed(TNewtype(c.type), DNewtype(c.data)) : c \in BaseCases}
    \cup {Typed(TTuple(<<TI32, c.type, TBool>>),
                DSeq(<<DInt(TRUE, <<1>>), c.data, DBool(TRUE)>>)) : c \in BaseCases}
    \cup {Typed(TRecord(c.type), DSeq(<<c.data, DSome(c.data)>>)) : c \in BaseCases}
    \cup {Typed(TRecord(c.type), DSeq(<<c.data, DNone>>)) : c \in BaseCases}
    \cup {Typed(TMessage(c.type), DVariant(nWrite, c.data)) : c \in BaseCases}
    \cup { Typed(TMessage(TString), DVariant(nQuit, DUnit)),
           Typed(TMessage(TString),
                 DVariant(nMove, DSeq(<<DInt(FALSE, <<1, 0>>), DInt(FALSE, <<2, 0>>)>>))),
           Typed(TMessage(TString),
                 DVariant(nColor, DSeq(<<DInt(FALSE, <<2, 5, 5>>), DInt(FALSE, <<1, 2, 8>>),
                                         DInt(FALSE, <<0>>)>>))),
           Typed(TComplex,
                 DSeq(<<DStr(Bytes(<<"t", "e", "s", "t">>)),
                        DSeq(<<DFloat(Fin(FALSE, <<1>>, <<1>>)), DFloat(Fin(FALSE, <<2>>, <<2>>))>>),
                        DSome(DInner), DBool(TRUE)>>)) }

\* a caller encodes a typed value: json5::to_string(&x)
EncodeTyped ==
    /\ mode = "typed"
    /\ phase = "typed"
    /\ LET r == serialize_typed(typed.type, typed.data) IN
       IF r.ok THEN /\ text' = r.val
                    /\ phase' = "text"
                    /\ UNCHANGED result
       ELSE /\ result' = r
            /\ phase' = "failed"
            /\ UNCHANGED text
    /\ UNCHANGED <<mode, value, parts, text2, typed, other, overflow_checks, frames, serializer, calls, parser_pos>>

\* the caller decodes the text as the same type: json5::from_str::<T>(&text)
DecodeTyped ==
    /\ mode = "typed"
    /\ phase = "text"
    /\ result' = from_str(typed.type, text)
    /\ phase' = "decoded"
    /\ UNCHANGED <<mode, value, text, parts, text2, typed, other, overflow_checks, frames, serializer, calls, parser_pos>>

InitTyped ==
    /\ mode = "typed"
    /\ phase = "typed"
    /\ typed \in TypedCases
    /\ value = [t |-> "Null"]
    /\ other = [t |-> "Null"]
    /\ text = <<>>
    /\ parts = [class |-> "none"]
    /\ result = [ok |-> FALSE, err |-> [kind |-> "none"]]
    /\ text2 = <<>>
    /\ overflow_checks \in BOOLEAN
    /\ frames = <<>>
    /\ serializer = NoSerializer
    /\ calls = <<>>
    /\ parser_pos = 0

NextTyped == EncodeTyped \/ DecodeTyped

SpecTyped == InitTyped /\ [][NextTyped]_vars

-----------------------------------------------------------------------------
(* Decoding a Value into a target type: T::deserialize(ValueDeserializer::new(v)) *)

TInt(ty) == [ty |-> ty]

\* numbers at the limits of the integer types, and floats with a fraction, beyond
\* the 64-bit range and without a value
NarrowSources ==
    { Number_Int(neg, mag)
        : neg \in BOOLEAN,
          mag \in { <<0>>, <<1>>, I8Max, I8MinMag, <<1, 2, 9>>, I16Max, I16MinMag, I32Max,
                    I32MinMag, <<2, 1, 4, 7, 4, 8, 3, 6, 4, 9>>, I64Max } }
    \cup { Number_Int(TRUE, I64MinMag) }
    \cup { Number_Uint(mag)
        : mag \in { <<0>>, <<5>>, U8Max, <<2, 5, 6>>, U16Max, <<6, 5, 5, 3, 6>>, U32Max,
                    <<4, 2, 9, 4, 9, 6, 7, 2, 9, 6>>, I64Max, I64MinMag, U64Max } }
    \cup { Number_Float(Fin(neg, int, frac))
        : neg \in BOOLEAN, int \in { <<0>>, <<5>>, <<3, 0, 0>> }, frac \in { <<>>, <<5>> } }
    \cup { Number_Float(Fin(neg, int, <<>>))
        : neg \in BOOLEAN, int \in { I64MinMag, TwoPow64, <<1>> \o Zeros(21) } }
    \cup { Number_Float(FNaN), Number_Float(FInf(FALSE)), Number_Float(FInf(TRUE)),
           Number_NaN, Number_Infinity, Number_NegInfinity }

NarrowCases ==
    { [class |-> "narrow", v |-> Number(n), type |-> TInt(ty)]
        : n \in NarrowSources, ty \in IntTypes \cup UintTypes }

\* Values of every kind ...
ShapeSources ==
    { Null, Bool(TRUE), Number(Number_Int(FALSE, <<1>>)), Number(Number_Float(FNaN)),
      String(Bytes(<<"x">>)), String(<<>>), Array(<<>>),
      Array(<<Number(Number_Int(FALSE, <<1>>)), Number(Number_Int(FALSE, <<2>>))>>),
      Array(<<Number(Number_Int(FALSE, <<1>>))>>), Array(<<Null, Bool(FALSE)>>),
      Object(<<>>),
      Object(<< <<Bytes(<<"x">>), Number(Number_Int(FALSE, <<1>>))>>,
                <<Bytes(<<"y">>), Number(Number_Int(FALSE, <<2>>))>> >>),
      Object(<< <<Bytes(<<"x">>), Null>> >>) }

\* ... and the container targets: Vec<i32>, (i32, i32), HashMap<String, i32>, a
\* struct of two i32 fields, a struct of an optional field, a struct without fields
ShapeTargets ==
    { TSeq(TInt("i32")), TTuple(<<TInt("i32"), TInt("i32")>>), TMap(TInt("i32")),
      TStruct(<< <<Bytes(<<"x">>), TInt("i32")>>, <<Bytes(<<"y">>), TInt("i32")>> >>),
      TStruct(<< <<Bytes(<<"x">>), TOption(TBool)>> >>),
      TStruct(<<>>) }

ShapeCases ==
    { [class |-> "shape", v |-> v, type |-> T] : v \in ShapeSources, T \in ShapeTargets }

\* enum E { U, N(i32), P(i32, i32), S { x: i32 } }
EnumTarget ==
    TEnum(<< [name |-> Bytes(<<"U">>), kind |-> "unit", of |-> <<>>],
             [name |-> Bytes(<<"N">>), kind |-> "newtype", of |-> TInt("i32")],
             [name |-> Bytes(<<"P">>), kind |-> "tuple", of |-> <<TInt("i32"), TInt("i32")>>],
             [name |-> Bytes(<<"S">>), kind |-> "struct",
              of |-> << <<Bytes(<<"x">>), TInt("i32")>> >>] >>)

EnumNames == { EnumTarget.variants[i].name : i \in 1..Len(EnumTarget.variants) }

\* what stands under the key of a variant
EnumPayloads ==
    { Null, Bool(TRUE), Number(Number_Int(FALSE, <<1>>)), String(Bytes(<<"U">>)),
      Array(<<>>),
      Array(<<Number(Number_Int(FALSE, <<1>>)), Number(Number_Int(FALSE, <<2>>))>>),
      Object(<<>>), Object(<< <<Bytes(<<"x">>), Number(Number_Int(FALSE, <<1>>))>> >>) }

\* a bare String, an Object of no, one and two entries, and the other kinds
EnumSources ==
    { String(n) : n \in EnumNames \cup {Bytes(<<"Z">>), <<>>} }
    \cup { Object(<< <<n, x>> >>) : n \in EnumNames \cup {Bytes(<<"Z">>)}, x \in EnumPayloads }
    \cup { Object(<< <<n, x>>, <<Bytes(<<"k">>), Null>> >>) : n \in EnumNames, x \in EnumPayloads }
    \cup { Object(<<>>), Null, Bool(FALSE), Number(Number_Int(FALSE, <<0>>)),
           Number(Number_Float(FInf(FALSE))), Array(<<>>), Array(<<String(Bytes(<<"U">>))>>),
           Array(<<String(Bytes(<<"P">>)), Number(Number_Int(FALSE, <<1>>)),
                   Number(Number_Int(FALSE, <<2>>))>>) }

EnumCases == { [class |-> "enum", v |-> v, type |-> EnumTarget] : v \in EnumSources }

DecodeCases == NarrowCases \cup ShapeCases \cup EnumCases

\* texts of one value of every kind, bare and between white space and
\* comments, and texts that are no document
FastTexts ==
    { Bytes(<<"t", "r", "u", "e">>), Bytes(<<"f", "a", "l", "s", "e">>),
      Bytes(<<"n", "u", "l", "l">>), Bytes(<<"5">>), Bytes(<<"-", "1", ".", "5">>),
      Bytes(<<"N", "a", "N">>), Bytes(<<"'", "a", "'">>), Bytes(<<"\"", "\"">>),
      Bytes(<<"'", "t", "r", "u", "e", "'">>), Bytes(<<"'", "\\", "n", "'">>),
      Bytes(<<"[", "]">>), Bytes(<<"[", "t", "r", "u", "e", "]">>), Bytes(<<"{", "}">>),
      Bytes(<<"{", "a", ":", "'", "b", "'", "}">>),
      Bytes(<<" ", "t", "r", "u", "e", "\n">>),
      Bytes(<<"/", "/", "c", "\n", "'", "a", "'", " ", "/", "*", "c", "*", "/">>),
      Bytes(<<"/", "*", "c", "*", "/", "n", "u", "l", "l", "/", "/">>),
      Bytes(<<"t", "r", "u", "e", " ", "x">>), Bytes(<<"'", "a", "'", ",">>),
      Bytes(<<"n", "u", "l", "l", "]">>), Bytes(<<"'", "a">>), Bytes(<<"t", "r", "u">>),
      <<>> }

\* bool, String, Option<bool>, Option<String>, Option<i32>, Option<Option<bool>>
FastTargets ==
    { TBool, TString, TOption(TBool), TOption(TString), TOption(TInt("i32")),
      TOption(TOption(TBool)) }

FastCases == { [class |-> "fast", input |-> t, type |-> T] : t \in FastTexts, T \in FastTargets }

\* a caller decodes a text through a Value: json5::from_str::<T>(text)
FromStr ==
    /\ mode = "decode"
    /\ phase = "text"
    /\ result' = from_str(typed.type, text)
    /\ phase' = "mediated"
    /\ UNCHANGED <<mode, value, text, parts, text2, typed, other, overflow_checks, frames, serializer, calls, parser_pos>>

\* a caller decodes the same text with the parser-driven Deserializer:
\* T::deserialize(Deserializer::from_str(text))
FastDeserialize ==
    /\ mode = "decode"
    /\ phase = "mediated"
    /\ other' = Deserializer_deserialize(typed.type, text)
    /\ phase' = "both"
    /\ UNCHANGED <<mode, value, text, parts, text2, typed, result, overflow_checks, frames, serializer, calls, parser_pos>>

\* a caller decodes a Value: T::deserialize(ValueDeserializer::new(value))
DecodeValue ==
    /\ mode = "decode"
    /\ phase = "value"
    /\ result' = Deserialize(typed.type, value)
    /\ phase' = "decoded"
    /\ UNCHANGED <<mode, value, text, parts, text2, typed, other, overflow_checks, frames, serializer, calls, parser_pos>>

InitDecode ==
    /\ mode = "decode"
    /\ \/ /\ phase = "value"
          /\ \E c \in DecodeCases :
                /\ value = c.v
                /\ typed = [type |-> c.type]
                /\ parts = [class |-> c.class]
          /\ text = NoText
       \/ /\ phase = "text"
          /\ \E c \in FastCases :
                /\ text = c.input
                /\ typed = [type |-> c.type]
                /\ parts = [class |-> c.class]
          /\ value = Null
    /\ result = NoResult
    /\ text2 = NoText
    /\ other = Null
    /\ overflow_checks \in {FALSE}
    /\ frames = <<>>
    /\ serializer = NoSerializer
    /\ calls = <<>>
    /\ parser_pos = 0

NextDecode == DecodeValue \/ FromStr \/ FastDeserialize

SpecDecode == InitDecode /\ [][NextDecode]_vars

\* C10: a typed value of a supported shape, encoded with to_string and decoded
\* with from_str as the same type, comes back equal; a present optional does
\* not come back absent.
C10_TypedRoundTrip ==
    (mode = "typed" /\ phase = "decoded") => (result.ok /\ result.val = typed.data)

-----------------------------------------------------------------------------
(* Round trip of Values *)

RECURSIVE HasNaN(_)
\* a NaN somewhere in the value: the NaN variant or a float holding a NaN
HasNaN(v) ==
    CASE v.t = "Number" -> v.n = Number_NaN \/ v.n = Number_Float(FNaN)
      [] v.t = "Array" -> \E i \in 1..Len(v.a) : HasNaN(v.a[i])
      [] v.t = "Object" -> \E i \in 1..Len(v.m) : HasNaN(v.m[i][2])
      [] OTHER -> FALSE

\* C1: every Value without a NaN, written by the compact emitter and parsed
\* again, is equal to the Value that was written, the Number variant included.
C1_RoundTrip ==
    (phase = "parsed" /\ mode = "value" /\ parts.class = "compact" /\ ~HasNaN(value))
        => (result.ok /\ ValueEq(result.val, value))

\* C2: the compact text of a Value always parses, and emitting the parsed
\* Value gives the same text again.
C2_Idempotent ==
    (mode = "value" /\ parts.class = "compact")
        => /\ phase \in {"parsed", "reencoded"} => result.ok
           /\ phase = "reencoded" => text2 = text

C2_Witness ==
    /\ mode = "value" /\ parts.class = "compact" /\ phase = "reencoded"
    /\ value.t = "Object" /\ Len(value.m) = 2
    /\ value.m[2][2] = String(Bytes(<<"a", "\"", "b">>))
    /\ text2 = text

-----------------------------------------------------------------------------
(* Whole input, early end *)

RECURSIVE FirstRawControl(_, _)
FirstRawControl(t, p) ==
    IF p >= Len(t) THEN None
    ELSE IF t[p + 1] = bBACKSLASH THEN FirstRawControl(t, p + 2)
    ELSE IF t[p + 1] < 32 THEN p
    ELSE FirstRawControl(t, p + 1)

-----------------------------------------------------------------------------
(* Number literals *)

IsDecimalCase == mode = "text" /\ phase = "parsed" /\ parts.class = "decimal"
DecimalIsFloat == parts.frac # <<>> \/ parts.exp # <<>>
DecimalLeadingZero == Len(parts.digits) > 1 /\ parts.digits[1] = 0
ResultNumberKind == IF result.ok /\ result.val.t = "Number" THEN result.val.n.k ELSE "none"

\* what C5 says of the literals in its three examples and of the non-negative ones
DecimalCommon ==
    /\ DecimalIsFloat => ResultNumberKind = "Float"
    /\ (~DecimalIsFloat /\ ~parts.negative) =>
          CASE parts.fits = "i64" -> result.ok /\ result.val = Number(Number_Int(FALSE, parts.digits))
            [] parts.fits \in {"2^63", "u64"} ->
                  result.ok /\ result.val = Number(Number_Uint(parts.digits))
            [] OTHER -> ResultNumberKind = "Float"
    /\ text = Bytes(<<".", "5">>) =>
          result.val = Number(Number_Float(Fin(FALSE, <<0>>, <<5>>)))
    /\ text = Bytes(<<"5", ".">>) =>
          result.val = Number(Number_Float(Fin(FALSE, <<5>>, <<>>)))
    /\ text = Bytes(<<"+", "1">>) => result.val = Number(Number_Int(FALSE, <<1>>))

\* C5 as claimed: the variant follows from the lexical form alone, and every
\* literal with a minus sign and no dot or exponent is an Int.
C5_Original ==
    IsDecimalCase
        => /\ DecimalCommon
           /\ (~DecimalIsFloat /\ parts.negative) => ResultNumberKind = "Int"

\* C5: for a decimal literal whose integer part has no zero before another
\* digit: a dot or an exponent gives Float; otherwise a minus sign gives Int
\* when the value is at least i64::MIN and Err(InvalidNumber) below that; a
\* non-negative literal gives Int up to i64::MAX, Uint up to u64::MAX, Float
\* above. ".5" is Float(0.5), "5." is Float(5.0), "+1" is Int(1). Of an integer
\* part written with a leading zero only the 0 is read, and the digits after
\* it are trailing data.
C5_Classification ==
    IsDecimalCase
        => IF DecimalLeadingZero
           THEN result = Err(TrailingData(Len(parts.pre) + 1))
           ELSE /\ DecimalCommon
                /\ (~DecimalIsFloat /\ parts.negative) =>
                      IF parts.fits \in {"i64", "2^63"}
                      THEN result.ok /\ result.val = Number(Number_Int(TRUE, parts.digits))
                      ELSE ~result.ok /\ result.err = InvalidNumber(text)

C5_Witness ==
    /\ IsDecimalCase /\ ~DecimalIsFloat /\ ~parts.negative /\ parts.fits = "u64"
    /\ ResultNumberKind = "Uint"

IsHexCase == mode = "text" /\ phase = "parsed" /\ parts.class = "hex"

\* C6: a hexadecimal literal whose digits denote n, n fitting u64, is Uint(n),
\* and with a minus sign Int(-n); the parser returns no other Int and does not
\* abort. Without a digit or with more than 64 bits it is Err(InvalidNumber).
C6_Hex ==
    IsHexCase
        => IF parts.fits = "u64"
           THEN /\ result.ok
                /\ result.val = IF parts.negative THEN Number(Number_Int(TRUE, parts.n))
                                ELSE Number(Number_Uint(parts.n))
           ELSE ~result.ok /\ result.err.kind = "InvalidNumber"

IsSpecialCase == mode = "text" /\ parts.class = "special"
SpecialVariant ==
    CASE text = Bytes(<<"N", "a", "N">>) -> Number_NaN
      [] text = Bytes(<<"-", "I", "n", "f", "i", "n", "i", "t", "y">>) -> Number_NegInfinity
      [] OTHER -> Number_Infinity

\* the float part of C7: NaN, +inf and -inf are written NaN, Infinity, -Infinity
SpecialFloats ==
    (mode = "value" /\ parts.class = "compact" /\ phase = "text")
        => /\ value = Number(Number_Float(FNaN)) => text = Bytes(<<"N", "a", "N">>)
           /\ value = Number(Number_Float(FInf(FALSE))) =>
                 text = Bytes(<<"I", "n", "f", "i", "n", "i", "t", "y">>)
           /\ value = Number(Number_Float(FInf(TRUE))) =>
                 text = Bytes(<<"-", "I", "n", "f", "i", "n", "i", "t", "y">>)

\* C7 as claimed: each special literal parses to its variant and is written
\* back as the text that was parsed.
C7_Original ==
    /\ (IsSpecialCase /\ phase # "text") => (result.ok /\ result.val = Number(SpecialVariant))
    /\ (IsSpecialCase /\ phase = "reencoded") => text2 = text
    /\ SpecialFloats

\* C7: NaN, Infinity, +Infinity and -Infinity parse to Number::NaN,
\* Number::Infinity, Number::Infinity and Number::NegInfinity, never to a
\* Float; the parsed value is written back as NaN, Infinity or -Infinity,
\* which is the text that was parsed except for +Infinity, written Infinity
\* without its sign; the floats NaN, +inf and -inf are written NaN, Infinity
\* and -Infinity.
C7_Special ==
    /\ (IsSpecialCase /\ phase # "text") => (result.ok /\ result.val = Number(SpecialVariant))
    /\ (IsSpecialCase /\ phase = "reencoded") =>
          text2 = IF text[1] = bPLUS THEN Tail(text) ELSE text
    /\ SpecialFloats

C7_Witness ==
    /\ IsSpecialCase /\ phase = "reencoded" /\ text[1] = bPLUS
    /\ text2 = Bytes(<<"I", "n", "f", "i", "n", "i", "t", "y">>)

-----------------------------------------------------------------------------
(* Objects *)

\* What a sequence of key/value pairs stores according to C9: the keys in the
\* order of their first occurrence, each with the value of its last occurrence.
FirstAt(ps, i) == \A j \in 1..(i - 1) : ps[j][1] # ps[i][1]
LastValue(ps, k) ==
    ps[CHOOSE j \in 1..Len(ps) :
          ps[j][1] = k /\ \A l \in (j + 1)..Len(ps) : ps[l][1] # k][2]

RECURSIVE StoredFrom(_, _)
StoredFrom(ps, i) ==
    IF i > Len(ps) THEN <<>>
    ELSE (IF FirstAt(ps, i)
          THEN << <<ps[i][1], Number(Number_Int(FALSE, LastValue(ps, ps[i][1])))>> >>
          ELSE <<>>) \o StoredFrom(ps, i + 1)
Stored(ps) == StoredFrom(ps, 1)

\* the entries (bare keys, digit values) written one after the other
RECURSIVE EntriesText(_, _, _, _)
EntriesText(m, lead, colon, sep) ==
    IF m = <<>> THEN <<>>
    ELSE lead \o m[1][1] \o colon \o DigitBytes(m[1][2].n.mag)
         \o (IF Len(m) > 1 THEN sep ELSE <<>>) \o EntriesText(Tail(m), lead, colon, sep)

CompactText(m) == <<bLBRACE>> \o EntriesText(m, <<>>, <<bCOLON>>, <<bCOMMA>>) \o <<bRBRACE>>
PrettyText(m) ==
    IF m = <<>> THEN <<bLBRACE, bRBRACE>>
    ELSE <<bLBRACE, bLF>>
         \o EntriesText(m, <<bSP, bSP, bSP, bSP>>, <<bCOLON, bSP>>, <<bCOMMA, bLF>>)
         \o <<bLF, bRBRACE>>

KeysOf(m) == [i \in 1..Len(m) |-> m[i][1]]

\* C9: an object text stores its keys once each, in the order of their first
\* occurrence, a repeated key taking the later value in the first position,
\* without an error; the compact and the pretty emitter write the entries in
\* the stored order.
C9_ObjectOrder ==
    /\ (mode = "text" /\ parts.class = "object" /\ phase # "text")
          => /\ result.ok
             /\ result.val = Object(Stored(parts.pairs))
             /\ NoDupKeys(result.val.m)
             /\ phase = "reencoded" => text2 = CompactText(result.val.m)
             /\ phase = "reencoded_pretty" => text2 = PrettyText(result.val.m)
    /\ (mode = "value" /\ value.t = "Object" /\ phase = "parsed")
          => /\ result.ok
             /\ result.val.t = "Object"
             /\ KeysOf(result.val.m) = KeysOf(value.m)

C9_Witness ==
    /\ mode = "text" /\ parts.class = "object" /\ phase = "reencoded_pretty"
    /\ parts.pairs = << <<Bytes(<<"b">>), <<1>> >>, <<Bytes(<<"a">>), <<1>> >>,
                        <<Bytes(<<"b">>), <<2>> >> >>
    /\ text2 = PrettyText(<< <<Bytes(<<"b">>), Number(Number_Int(FALSE, <<2>>))>>,
                             <<Bytes(<<"a">>), Number(Number_Int(FALSE, <<1>>))>> >>)

-----------------------------------------------------------------------------
(* Equality of Values *)

EqValues ==
    {Null, Bool(TRUE), Bool(FALSE), String(<<>>), String(Bytes(<<"a">>)), Array(<<>>),
     Object(<<>>)}
    \cup {Number(n) : n \in NumberLeaves}
    \cup {Array(<<Number(n)>>) : n \in {Number_NaN, Number_Float(FNaN), Number_Int(FALSE, <<1>>)}}
    \cup {Array(<<Null, Number(n)>>) : n \in {Number_NaN, Number_Uint(<<1>>)}}
    \cup {Object(<< <<Bytes(<<"a">>), Number(n)>> >>)
            : n \in {Number_NaN, Number_Float(FNaN), Number_Int(FALSE, <<1>>)}}
    \cup {Object(<< <<Bytes(<<"a">>), Null>>, <<Bytes(<<"b">>), Bool(TRUE)>> >>),
          Object(<< <<Bytes(<<"b">>), Bool(TRUE)>>, <<Bytes(<<"a">>), Null>> >>),
          Object(<< <<Bytes(<<"b">>), Null>>, <<Bytes(<<"a">>), Bool(TRUE)>> >>),
          Array(<<Null, Bool(TRUE)>>), Array(<<Bool(TRUE), Null>>)}

\* a caller compares two Values: value == other
Compare ==
    /\ mode = "eq"
    /\ phase = "operands"
    /\ result' = [ok |-> TRUE, val |-> Bool(ValueEq(value, other))]
    /\ phase' = "compared"
    /\ UNCHANGED <<mode, value, text, parts, text2, typed, other, overflow_checks, frames, serializer, calls, parser_pos>>

InitEq ==
    /\ mode = "eq"
    /\ phase = "operands"
    /\ value \in EqValues
    /\ other \in EqValues
    /\ text = NoText
    /\ parts = [class |-> "none"]
    /\ result = NoResult
    /\ text2 = NoText
    /\ typed = Null
    /\ overflow_checks \in BOOLEAN
    /\ frames = <<>>
    /\ serializer = NoSerializer
    /\ calls = <<>>
    /\ parser_pos = 0

NextEq == Compare

SpecEq == InitEq /\ [][NextEq]_vars

RECURSIVE HasFloatNaN(_)
\* a float holding an IEEE NaN somewhere in the value
HasFloatNaN(v) ==
    CASE v.t = "Number" -> v.n = Number_Float(FNaN)
      [] v.t = "Array" -> \E i \in 1..Len(v.a) : HasFloatNaN(v.a[i])
      [] v.t = "Object" -> \E i \in 1..Len(v.m) : HasFloatNaN(v.m[i][2])
      [] OTHER -> FALSE

RECURSIVE Structure(_)
\* the structure of a value: an object is its keys with their values, whatever
\* their order, and a float zero has no sign
Structure(v) ==
    CASE v.t = "Number" ->
            IF v.n.k = "Float" /\ v.n.f.c = "fin" /\ v.n.f.int = <<0>> /\ v.n.f.frac = <<>>
            THEN Number(Number_Float(Fin(FALSE, <<0>>, <<>>)))
            ELSE v
      [] v.t = "Array" -> [t |-> "Array", a |-> [i \in 1..Len(v.a) |-> Structure(v.a[i])]]
      [] v.t = "Object" ->
            [t |-> "Object",
             f |-> [k \in {v.m[i][1] : i \in 1..Len(v.m)} |->
                      Structure(v.m[CHOOSE i \in 1..Len(v.m) : v.m[i][1] = k][2])]]
      [] OTHER -> v

IsCompared == mode = "eq" /\ phase = "compared"

\* C8 as claimed: a Value holding a NaN number, the Number::NaN variant
\* included, is unequal to itself; all else compares by structure.
C8_Original ==
    IsCompared
        => result.val = Bool(/\ ~HasNaN(value)
                             /\ ~HasNaN(other)
                             /\ Structure(value) = Structure(other))

\* C8: a Value holding a Number::Float whose payload is an IEEE NaN is unequal
\* to itself; the variant Number::NaN is equal to itself, so
\* Value::Number(Number::NaN) == Value::Number(Number::NaN) is true; every
\* other Number and Value compares by structure (floats by value, objects as
\* maps from key to value).
C8_Equality ==
    IsCompared
        => result.val = Bool(/\ ~HasFloatNaN(value)
                             /\ ~HasFloatNaN(other)
                             /\ Structure(value) = Structure(other))

C8_Witness ==
    /\ IsCompared
    /\ value = Array(<<Null, Number(Number_NaN)>>) /\ other = value
    /\ result.val = Bool(TRUE)

-----------------------------------------------------------------------------
(* Separators *)

\* the tokens between the brackets are elements separated by one comma each,
\* with at most one more comma after the last element
SepWellFormed(toks) ==
    /\ toks # <<>> => toks[1] # "c"
    /\ \A i \in 1..(Len(toks) - 1) : (toks[i] = "c") # (toks[i + 1] = "c")

IsElem(tok) == tok # "c"

\* the Value the elements denote: the elements in order; of an object the
\* entries a and b, each stored once in the order of their first occurrence
SepElemValue(tok) ==
    IF tok = "x" THEN Number(Number_Int(TRUE, <<1>>)) ELSE String(Bytes(<<"b">>))
SepEntry(tok) ==
    IF tok = "x" THEN <<Bytes(<<"a">>), Number(Number_Int(TRUE, <<1>>))>>
    ELSE <<Bytes(<<"b">>), Array(<<>>)>>
SepValue(kind, toks) ==
    LET es == SelectSeq(toks, IsElem)
        first == SelectSeq([i \in 1..Len(es) |-> <<es[i], \A j \in 1..(i - 1) : es[j] # es[i]>>],
                           LAMBDA p : p[2])
    IN IF kind = "array" THEN Array([i \in 1..Len(es) |-> SepElemValue(es[i])])
       ELSE Object([i \in 1..Len(first) |-> SepEntry(first[i][1])])

\* C11: an array or object text whose elements (entries) are separated by
\* exactly one comma each, with at most one trailing comma before the closing
\* bracket, parses to exactly its elements; a leading comma, two consecutive
\* commas or two elements with no comma between them are an error. The texts
\* {foo: 1, bar: 'baz',} and [1, 2, 3,] denote the two entries and the three
\* elements.
C11_Separators ==
    /\ (mode = "text" /\ phase = "parsed" /\ parts.class = "sep")
          => IF SepWellFormed(parts.toks)
             THEN result.ok /\ result.val = SepValue(parts.kind, parts.toks)
             ELSE ~result.ok /\ result.err.kind # "panic"
    /\ (mode = "text" /\ phase = "parsed" /\ parts.class = "sep_example")
          => result.ok /\ result.val = parts.val

C11_Witness ==
    /\ mode = "text" /\ phase = "parsed" /\ parts.class = "sep"
    /\ parts.kind = "object" /\ parts.toks = <<"x", "c", "y", "c">>
    /\ text = Bytes(<<"{", "a", ":", "-", "1", ",", "'", "b", "'", ":", "[", "]", ",", "}">>)
    /\ result.ok
    /\ result.val = Object(<< <<Bytes(<<"a">>), Number(Number_Int(TRUE, <<1>>))>>,
                              <<Bytes(<<"b">>), Array(<<>>)>> >>)

-----------------------------------------------------------------------------
(* Recursion depth of the emitters *)

\* C12: writing a value tree nested more than 512 containers deep with the
\* compact or with the pretty emitter stops recursing (no activation of
\* write_value is more than one level beyond the limit) and returns Err(Custom)
\* and no text.
C12_DepthLimit ==
    mode = "emit"
        => /\ \A i \in 1..Len(frames) : frames[i].depth <= MAX_DEPTH + 1
           /\ (phase # "writing" /\ parts.nesting > MAX_DEPTH)
                 => /\ phase = "failed"
                    /\ ~result.ok /\ result.err.kind = "Custom"
                    /\ text = NoText

\* the compact emitter alone keeps the limit
C12_CompactLimit ==
    (mode = "emit" /\ parts.formatter = "Compact")
        => /\ \A i \in 1..Len(frames) : frames[i].depth <= MAX_DEPTH + 1
           /\ phase # "writing"
                 => IF parts.nesting > MAX_DEPTH
                    THEN /\ phase = "failed"
                         /\ result = Err(Custom("Recursion limit exceeded"))
                         /\ text = NoText
                    ELSE phase = "text"

\* the pretty emitter writes every tree, however deep
C12_PrettyNoLimit ==
    (mode = "emit" /\ parts.formatter = "Pretty" /\ phase # "writing")
        => phase = "text" /\ result = NoResult

\* the steps write what the emitters write as a whole
Emit_Agrees ==
    (mode = "emit" /\ phase = "text" /\ parts.nesting <= MaxElems + 1)
        => text = (IF parts.formatter = "Compact"
                   THEN Compact_write_value(Expand(value), 0, parts.quote_keys,
                                            parts.max_depth)
                   ELSE Pretty_write_value(Expand(value), 0, parts.indent_str,
                                           parts.quote_keys)).val

-----------------------------------------------------------------------------
(* Integer narrowing *)

IsNarrowed == mode = "decode" /\ parts.class = "narrow" /\ phase = "decoded"

\* the source number has a mathematical value: it is an integer or a finite float
HasValue(n) == n.k \in {"Int", "Uint"} \/ (n.k = "Float" /\ n.f.c = "fin")

\* that value truncated toward zero
Truncated(n) ==
    IF n.k = "Float" THEN DInt(n.f.neg, n.f.int)
    ELSE IF n.k = "Int" THEN DInt(n.neg, n.mag)
    ELSE DInt(FALSE, n.mag)

\* the integer x lies in the range of the type ty
InRange(ty, x) ==
    IF x.neg THEN BigLe(x.mag, IntMinMag(ty)) ELSE BigLe(x.mag, IntMax(ty))

\* C13: decoding a number into an integer type of any width returns exactly
\* the (truncated) value of the source or fails; a source whose value lies
\* outside the range of the target, a float beyond the 64-bit range included,
\* fails and is never wrapped or saturated to a value in the range.
C13_Narrowing ==
    IsNarrowed
        => /\ result.ok
                => /\ HasValue(value.n)
                   /\ result.val = Truncated(value.n)
                   /\ InRange(typed.type.ty, result.val)
           /\ (HasValue(value.n) /\ ~InRange(typed.type.ty, Truncated(value.n)))
                => ~result.ok

\* integer sources are never altered: Int and Uint decode to their value when
\* it lies in the range of the target and fail otherwise
C13_Integers ==
    (IsNarrowed /\ value.n.k \in {"Int", "Uint"})
        => IF InRange(typed.type.ty, Truncated(value.n))
           THEN result = Ok(Truncated(value.n), 0)
           ELSE ~result.ok

-----------------------------------------------------------------------------
(* Container shapes *)

IsShapeCase == mode = "decode" /\ parts.class = "shape" /\ phase = "decoded"

\* C14: decoding a sequence target from a Value that is not an Array is
\* TypeMismatch, and decoding a map or record target from a Value that is not
\* an Object, an Array included, is an error.
C14_ShapeMismatch ==
    IsShapeCase
        => /\ (typed.type.ty \in {"seq", "tuple"} /\ value.t # "Array")
                => result = Err(TypeMismatch("array", type_name(value)))
           /\ (typed.type.ty \in {"map", "struct"} /\ value.t # "Object")
                => ~result.ok

\* all but a record read from an Array: sequences and maps take one kind of
\* Value, and a record takes no scalar
C14_OtherShapes ==
    IsShapeCase
        => /\ (typed.type.ty \in {"seq", "tuple"} /\ value.t # "Array")
                => result = Err(TypeMismatch("array", type_name(value)))
           /\ (typed.type.ty = "map" /\ value.t # "Object")
                => result = Err(TypeMismatch("object", type_name(value)))
           /\ (typed.type.ty = "struct" /\ value.t \notin {"Object", "Array"})
                => result = Err(TypeMismatch("object", type_name(value)))

-----------------------------------------------------------------------------
(* Tagged unions *)

IsEnumCase == mode = "decode" /\ parts.class = "enum" /\ phase = "decoded"

KindOf(name) == VariantNamed(EnumTarget, name).kind

IsCustom(r) == ~r.ok /\ r.err.kind = "Custom"

IsTypeMismatch(r) == ~r.ok /\ r.err.kind = "TypeMismatch"

\* C15: a bare String selects a variant only when the variant has no payload
\* (else Custom); an Object of exactly one entry selects the variant its key
\* names, and the value must be Null for a variant without payload, an Array
\* for a positional payload and an Object for a named payload; an Object of
\* zero or several entries and every other kind of Value is rejected with
\* Custom or TypeMismatch.
C15_EnumShapes ==
    IsEnumCase =>
        CASE value.t = "String" /\ value.s \in EnumNames ->
                IF KindOf(value.s) = "unit" THEN result = Ok(DVariant(value.s, DUnit), 0)
                ELSE IsCustom(result)
          [] value.t = "String" /\ value.s \notin EnumNames -> ~result.ok
          [] value.t = "Object" /\ Len(value.m) = 1 /\ value.m[1][1] \in EnumNames ->
                LET name == value.m[1][1]
                    x == value.m[1][2]
                IN /\ result.ok => result.val.d = "variant" /\ result.val.name = name
                   /\ KindOf(name) = "unit" =>
                         IF x.t = "Null" THEN result = Ok(DVariant(name, DUnit), 0)
                         ELSE IsCustom(result)
                   /\ KindOf(name) = "tuple" =>
                         IF x.t = "Array" THEN result.ok <=> Len(x.a) >= 2
                         ELSE IsTypeMismatch(result)
                   /\ KindOf(name) = "struct" =>
                         IF x.t = "Object" THEN result.ok <=> Len(x.m) = 1
                         ELSE IsTypeMismatch(result)
                   /\ KindOf(name) = "newtype" => (result.ok <=> x.t = "Number")
          [] value.t = "Object" /\ Len(value.m) = 1 /\ value.m[1][1] \notin EnumNames ->
                ~result.ok
          [] value.t = "Object" /\ Len(value.m) # 1 -> IsCustom(result)
          [] OTHER -> IsTypeMismatch(result)

\* a positional payload read from the one entry of an Object
C15_Witness ==
    /\ IsEnumCase
    /\ value = Object(<< <<Bytes(<<"P">>),
                 Array(<<Number(Number_Int(FALSE, <<1>>)), Number(Number_Int(FALSE, <<2>>))>>)>> >>)
    /\ result = Ok(DVariant(Bytes(<<"P">>), DSeq(<<DInt(FALSE, <<1>>), DInt(FALSE, <<2>>)>>)), 0)

-----------------------------------------------------------------------------
(* The parser-driven decoder against the decoder through a Value *)

IsFastCase == mode = "decode" /\ parts.class = "fast" /\ phase = "both"

\* the text is one JSON5 value and nothing else
ValidInput == parse_value(text).ok

SameOutcome == IF result.ok THEN other.ok /\ other.val = result.val ELSE ~other.ok

\* C16: for a valid input text and a bool, string or optional target the
\* parser-driven Deserializer and the decoder through a Value (from_str) return
\* the same decoded value or both return an error.
C16_FastPathSame == (IsFastCase /\ ValidInput) => SameOutcome

\* the two agree on every valid text for a bool and an optional target, and
\* for a string target when the text is a string, an array or an object
C16_FastPathElsewhere ==
    (IsFastCase /\ ValidInput)
        => /\ typed.type.ty \in {"bool", "option"} => SameOutcome
           /\ (typed.type.ty = "string"
                  /\ parse_value(text).val.t \in {"String", "Array", "Object"}) => SameOutcome
           /\ (typed.type.ty = "string"
                  /\ parse_value(text).val.t \in {"Null", "Bool", "Number"})
                 => /\ result = deserialize_string(parse_value(text).val)
                    /\ result.ok
                    /\ other = Err(TypeMismatch("str", type_name(parse_value(text).val)))

-----------------------------------------------------------------------------
(* The kind of a number through its text *)

IsFiniteFloat(n) == n.k = "Float" /\ n.f.c = "fin"

IsInteger(n) == n.k \in {"Int", "Uint"}

IsDigits(t) == t # <<>> /\ \A i \in 1..Len(t) : t[i] >= b0 /\ t[i] <= b0 + 9

\* the text of a finite float: one dot with digits on both sides, ".0" when
\* the value is whole
IsFloatText(n, t) ==
    LET body == IF n.f.neg THEN Tail(t) ELSE t
        dots == {i \in 1..Len(body) : body[i] = bDOT}
    IN /\ n.f.neg => (t # <<>> /\ t[1] = bMINUS)
       /\ Cardinality(dots) = 1
       /\ \A i \in dots : /\ IsDigits(SubSeq(body, 1, i - 1))
                          /\ IsDigits(SubSeq(body, i + 1, Len(body)))
                          /\ n.f.frac = <<>> => SubSeq(body, i + 1, Len(body)) = <<b0>>

\* the text of an integer: decimal digits, after a minus sign when it is negative
IsIntegerText(n, t) ==
    IF n.k = "Int" /\ n.neg THEN t # <<>> /\ t[1] = bMINUS /\ IsDigits(Tail(t))
    ELSE IsDigits(t)

\* the number v came back as w of the same kind
SameNumberKind(v, w) ==
    /\ IsFiniteFloat(v.n) => (w.t = "Number" /\ w.n.k = "Float")
    /\ IsInteger(v.n) => (w.t = "Number" /\ IsInteger(w.n))

\* C17: a finite Number::Float is written with a dot (a whole value with an
\* explicit fractional digit, 5.0) and its text parses back as Number::Float;
\* an Int or Uint is written as bare decimal digits, with a minus sign when
\* negative, and parses back as an integer variant.
C17_NumberKind ==
    (mode = "value" /\ phase \notin {"value", "formatter", "failed"})
        => /\ (value.t = "Number" /\ IsFiniteFloat(value.n)) => IsFloatText(value.n, text)
           /\ (value.t = "Number" /\ IsInteger(value.n)) => IsIntegerText(value.n, text)
           /\ (value.t = "Number" /\ phase # "text")
                 => (result.ok /\ SameNumberKind(value, result.val))
           /\ (value.t = "Array" /\ phase # "text")
                 => /\ result.ok /\ result.val.t = "Array" /\ Len(result.val.a) = Len(value.a)
                    /\ \A i \in 1..Len(value.a) :
                          value.a[i].t = "Number"
                              => SameNumberKind(value.a[i], result.val.a[i])

\* the whole float 5 is written 5.0 and comes back a float
C17_Witness ==
    /\ mode = "value" /\ phase = "parsed"
    /\ value = Number(Number_Float(Fin(FALSE, <<5>>, <<>>)))
    /\ text = <<b0 + 5, bDOT, b0>>
    /\ result = Ok(value, 3)

-----------------------------------------------------------------------------
(* Keys of objects *)

\* the grammar of a bare key: an ASCII letter, underscore or dollar sign, then
\* these and ASCII digits
IsBareKey(k) ==
    LET first(b) == (b >= 65 /\ b <= 90) \/ (b >= 97 /\ b <= 122) \/ b = 95 \/ b = 36
    IN /\ k # <<>>
       /\ first(k[1])
       /\ \A i \in 2..Len(k) : first(k[i]) \/ (k[i] >= 48 /\ k[i] <= 57)

\* t holds the bytes w from offset p (0-based) on
HasAt(t, p, w) == p + Len(w) <= Len(t) /\ SubSeq(t, p + 1, p + Len(w)) = w

\* the text of the first key of the object written with the formatter in parts:
\* it follows the brace, and in the pretty layout the line break and the indent
FirstKeyAt == IF parts.formatter = "Compact" THEN 1 ELSE 2 + Len(parts.indent_str)

\* C18: with quote_keys false a key is written bare exactly when it matches the
\* identifier grammar of the emitter and double-quoted and escaped otherwise,
\* the empty key included; with quote_keys true every key is written
\* double-quoted; in both modes the parser reads the written key back as the
\* same string.
C18_KeyQuoting ==
    (mode = "value" /\ parts.class = "keys" /\ phase \notin {"formatter", "failed"})
        => LET k == value.m[1][1]
               bare == ~parts.quote_keys /\ IsBareKey(k)
           IN /\ bare => HasAt(text, FirstKeyAt, k \o <<bCOLON>>)
              /\ ~bare => HasAt(text, FirstKeyAt, write_escaped_str(k) \o <<bCOLON>>)
              /\ ~bare => text[FirstKeyAt + 1] = bDQUOTE
              /\ phase # "text" => (result.ok /\ result.val = value)

\* a key that is no identifier, and an identifier under quote_keys, written
\* in quotes and read back
C18_Witness ==
    /\ mode = "value" /\ parts.class = "keys" /\ phase = "parsed"
    /\ parts.quote_keys /\ parts.formatter = "Compact"
    /\ value = Object(<< <<Bytes(<<"a">>), Null>>, <<Bytes(<<"a", "-", "b">>), Array(<<>>)>> >>)
    /\ text = Bytes(<<"{", "\"", "a", "\"", ":", "n", "u", "l", "l", ",",
                      "\"", "a", "-", "b", "\"", ":", "[", "]", "}">>)
    /\ result.ok /\ result.val = value

-----------------------------------------------------------------------------
(* The pretty layout *)

\* n copies of the indent string
Copies(indent_str, n) ==
    [i \in 1..(n * Len(indent_str)) |-> indent_str[((i - 1) % Len(indent_str)) + 1]]

RECURSIVE JoinLines(_)
JoinLines(ls) ==
    IF Len(ls) = 1 THEN ls[1] ELSE ls[1] \o <<bLF>> \o JoinLines(Tail(ls))

\* The lines of a value that stands inside d containers; the first of them
\* goes on after what its line began with. A value that is no container or is
\* an empty one is a single piece. A container with entries is its opening
\* bracket; then each entry on a line of its own after d + 1 copies of the
\* indent, a key with a colon and a space after it, a comma after every entry
\* but the last; then the closing bracket on a line of its own after d copies.
RECURSIVE LayoutLines(_, _, _, _)
LayoutLines(v, d, indent_str, quote_keys) ==
    LET isObj == v.t = "Object"
        items == IF isObj THEN v.m ELSE v.a
        entry(i) ==
            LET sub == LayoutLines(IF isObj THEN items[i][2] ELSE items[i],
                                   d + 1, indent_str, quote_keys)
                key == IF isObj
                       THEN write_object_key(items[i][1], quote_keys) \o <<bCOLON, bSP>>
                       ELSE <<>>
                lines == <<Copies(indent_str, d + 1) \o key \o sub[1]>> \o Tail(sub)
            IN [lines EXCEPT ![Len(lines)] = @ \o (IF i < Len(items) THEN <<bCOMMA>> ELSE <<>>)]
    IN IF v.t \notin {"Array", "Object"} THEN <<Compact_write_value(v, 0, FALSE, 0).val>>
       ELSE IF items = <<>> THEN <<IF isObj THEN <<bLBRACE, bRBRACE>>
                                   ELSE <<bLBRACKET, bRBRACKET>>>>
       ELSE <<IF isObj THEN <<bLBRACE>> ELSE <<bLBRACKET>>>>
            \o Flatten([i \in 1..Len(items) |-> entry(i)])
            \o <<Copies(indent_str, d) \o <<IF isObj THEN bRBRACE ELSE bRBRACKET>>>>

IsPrettyText ==
    /\ mode = "value"
    /\ phase \notin {"value", "formatter", "failed"}
    /\ parts.class = "pretty" \/ (parts.class \in {"keys", "layout"} /\ parts.formatter = "Pretty")

IndentOfCase == IF parts.class = "pretty" THEN <<bSP, bSP, bSP, bSP>> ELSE parts.indent_str

\* C19: in the output of the pretty emitter every element or key of a
\* non-empty container inside d containers starts a line of its own after
\* d + 1 copies of the indent string and the closing bracket stands on a line
\* of its own after d copies; a key is followed by a colon and a space, every
\* entry but the last by a comma; an empty array or object is [] or {} without
\* a line break. With an indent of four spaces {a: {b: 1}} has a after 4 and
\* b after 8 spaces.
C19_PrettyLayout ==
    IsPrettyText
        => /\ text = JoinLines(LayoutLines(SerializeValue(value), 0, IndentOfCase,
                                           IF parts.class = "pretty" THEN FALSE
                                           ELSE parts.quote_keys))
           /\ (value.t = "Array" /\ value.a = <<>>) => text = <<bLBRACKET, bRBRACKET>>
           /\ (value.t = "Object" /\ value.m = <<>>) => text = <<bLBRACE, bRBRACE>>
           /\ (/\ value = Object(<< <<Bytes(<<"a">>),
                      Object(<< <<Bytes(<<"b">>), Number(Number_Int(FALSE, <<1>>))>> >>)>> >>)
               /\ IndentOfCase = <<bSP, bSP, bSP, bSP>>)
                 => text = Bytes(<<"{", "\n", " ", " ", " ", " ", "a", ":", " ", "{", "\n",
                                   " ", " ", " ", " ", " ", " ", " ", " ", "b", ":", " ", "1",
                                   "\n", " ", " ", " ", " ", "}", "\n", "}">>)

\* [[1, 2], [3, 4]] written with an indent of four spaces
C19_Witness ==
    /\ IsPrettyText
    /\ parts.class = "layout" /\ parts.indent_str = <<bSP, bSP, bSP, bSP>>
    /\ value.t = "Array" /\ Len(value.a) = 2 /\ value.a[1].t = "Array"
    /\ text = Bytes(<<"[", "\n",
                      " ", " ", " ", " ", "[", "\n",
                      " ", " ", " ", " ", " ", " ", " ", " ", "1", ",", "\n",
                      " ", " ", " ", " ", " ", " ", " ", " ", "2", "\n",
                      " ", " ", " ", " ", "]", ",", "\n",
                      " ", " ", " ", " ", "[", "\n",
                      " ", " ", " ", " ", " ", " ", " ", " ", "3", ",", "\n",
                      " ", " ", " ", " ", " ", " ", " ", " ", "4", "\n",
                      " ", " ", " ", " ", "]", "\n", "]">>)

-----------------------------------------------------------------------------
(* Escapes in strings *)

IsEscapeCase == mode = "text" /\ parts.class = "escape" /\ phase = "parsed"

\* the value of a hexadecimal digit, None for any other byte
HexOf(b) ==
    IF b >= 48 /\ b <= 57 THEN b - 48
    ELSE IF b >= 65 /\ b <= 70 THEN b - 55
    ELSE IF b >= 97 /\ b <= 102 THEN b - 87
    ELSE None

\* the number that the hexadecimal digits among the bytes of e denote
RECURSIVE HexNum(_, _)
HexNum(e, acc) ==
    IF e = <<>> THEN acc
    ELSE HexNum(Tail(e), IF HexOf(e[1]) = None THEN acc ELSE acc * 16 + HexOf(e[1]))

\* the character that a simple escape stands for
SimpleChar(b) ==
    CASE b = Ch("b") -> 8
      [] b = Ch("f") -> 12
      [] b = Ch("n") -> 10
      [] b = Ch("r") -> 13
      [] b = Ch("t") -> 9
      [] b = Ch("v") -> 11
      [] OTHER -> b

\* the parse gave the string of the text around the escape with cs in its place
YieldsBytes(cs) == result = Ok(String(parts.before \o cs \o parts.after), Len(text))

Yields(cp) == YieldsBytes(Utf8Encode(cp))

IsScalar(cp) == cp <= 1114111 /\ ~(cp >= 55296 /\ cp <= 57343)

FailsWith(kind) == ~result.ok /\ result.err.kind = kind

\* a raw control character stands in the string
HasRawControl == \E i \in 1..Len(parts.after) : parts.after[i] < 32

-----------------------------------------------------------------------------
(* The null escape *)

IsNullEscape == IsEscapeCase /\ parts.esc[1] = b0 /\ ~HasRawControl

\* the byte after the 0 of the escape: the second byte of the escape, else the
\* first byte after it, else the closing quote
AfterNull ==
    IF Len(parts.esc) >= 2 THEN parts.esc[2]
    ELSE IF parts.after # <<>> THEN parts.after[1]
    ELSE parts.quote

\* C21: the null escape \0 yields U+0000 only when the character after it is
\* no decimal digit; \0 before any of the digits 0 to 9 is rejected with
\* InvalidEscape.
C21_NullEscape ==
    IsNullEscape
        => IF AfterNull >= b0 /\ AfterNull <= b9 THEN FailsWith("InvalidEscape")
           ELSE YieldsBytes(<<0>> \o Tail(parts.esc))

\* what parse_escape does: the digits 1 to 9 are refused, the digit 0 is not
C21_NullEscapeNonZero ==
    IsNullEscape
        => IF AfterNull > b0 /\ AfterNull <= b9 THEN result = Err(InvalidEscape(b0))
           ELSE YieldsBytes(<<0>> \o Tail(parts.esc))

-----------------------------------------------------------------------------
(* Surrogates *)

IsHex4(t, p) == Len(t) >= p + 3 /\ \A i \in p..(p + 3) : HexOf(t[i]) # None

\* the escape of the case is \uXXXX
IsU4Case ==
    /\ IsEscapeCase /\ ~HasRawControl
    /\ parts.esc[1] = Ch("u") /\ IsHex4(parts.esc, 2)

FirstUnit == HexNum(SubSeq(parts.esc, 2, 5), 0)

\* what stands after the first \uXXXX up to the end of the text
AfterFirst == SubSeq(parts.esc, 6, Len(parts.esc)) \o parts.after \o <<parts.quote>>

\* ... begins with another \uXXXX
FollowedByU4 ==
    /\ Len(AfterFirst) >= 2 /\ AfterFirst[1] = bBACKSLASH /\ AfterFirst[2] = Ch("u")
    /\ IsHex4(AfterFirst, 3)

SecondUnit == HexNum(SubSeq(AfterFirst, 3, 6), 0)

IsHigh(u) == u >= 55296 /\ u <= 56319

IsLow(u) == u >= 56320 /\ u <= 57343

\* the bytes ED A0..BF start the encoding of a surrogate
HasSurrogate(bs) == \E i \in 1..(Len(bs) - 1) : bs[i] = 237 /\ bs[i + 1] >= 160

\* a high and a low surrogate make one code point
PairYields ==
    (IsHigh(FirstUnit) /\ FollowedByU4 /\ IsLow(SecondUnit))
        => result = Ok(String(parts.before
                              \o Utf8Encode(65536 + (FirstUnit - 55296) * 1024
                                                  + (SecondUnit - 56320))
                              \o SubSeq(AfterFirst, 7, Len(AfterFirst) - 1)),
                       Len(text))

\* C22 as claimed: every high surrogate without a low surrogate after it
\* fails with InvalidUnicode.
C22_Original ==
    IsU4Case
        => /\ PairYields
           /\ (IsHigh(FirstUnit) /\ ~(FollowedByU4 /\ IsLow(SecondUnit)))
                 => FailsWith("InvalidUnicode")
           /\ IsLow(FirstUnit) => FailsWith("InvalidUnicode")
           /\ result.ok => ~HasSurrogate(result.val.s)

\* C22: a \uXXXX in D800..DBFF directly followed by a \uXXXX in DC00..DFFF
\* yields the code point 0x10000 + ((hi - 0xD800) << 10) + (lo - 0xDC00); a low
\* surrogate on its own, a high surrogate with no \u after it and a high
\* surrogate before a \uXXXX that is no low surrogate fail with InvalidUnicode;
\* a high surrogate before a \u without four hex digits fails with
\* InvalidEscape; a parsed string holds no surrogate.
C22_Surrogates ==
    IsU4Case
        => /\ PairYields
           /\ (IsHigh(FirstUnit) /\ FollowedByU4 /\ ~IsLow(SecondUnit))
                 => result = Err(InvalidUnicode(SecondUnit))
           /\ (IsHigh(FirstUnit) /\ ~FollowedByU4)
                 => IF Len(AfterFirst) >= 2 /\ AfterFirst[1] = bBACKSLASH
                       /\ AfterFirst[2] = Ch("u")
                    THEN result = Err(InvalidEscape(Ch("u")))
                    ELSE result = Err(InvalidUnicode(FirstUnit))
           /\ IsLow(FirstUnit) => result = Err(InvalidUnicode(FirstUnit))
           /\ result.ok => ~HasSurrogate(result.val.s)

\* \uD83D\uDE00 is U+1F600
C22_Witness ==
    /\ IsU4Case
    /\ text = Bytes(<<"\"", "\\", "u", "D", "8", "3", "D", "\\", "u", "D", "E", "0", "0", "\"">>)
    /\ result = Ok(String(<<240, 159, 152, 128>>), 14)

-----------------------------------------------------------------------------
(* Line continuation *)

IsContinuation ==
    IsEscapeCase /\ ~HasRawControl /\ parts.esc \in {<<bLF>>, <<bCR>>, <<bCR, bLF>>}

\* C23: in a string of either kind of quotes a backslash directly before a line
\* terminator (LF, CR, or the pair CR LF) is accepted and adds nothing to the
\* string, which goes on after the terminator: "a\<LF>b" and "a\<CR><LF>b" are
\* both the string ab.
C23_LineContinuation == IsContinuation => YieldsBytes(<<>>)

\* a backslash before LF or before CR alone is elided; before the pair CR LF the
\* scan for the closing quote steps over the CR and stops at the LF
C23_OneTerminator ==
    IsContinuation
        => IF Len(parts.esc) = 1 THEN YieldsBytes(<<>>)
           ELSE result = Err(UnexpectedChar(bLF, 3 + Len(parts.before)))

-----------------------------------------------------------------------------
(* Raw line terminators in strings *)

IsRawBreak == mode = "text" /\ parts.class = "rawbreak" /\ phase = "parsed"

\* the offset of the raw line terminator in the text
BreakAt == Len(parts.pre) + 1 + Len(parts.before)

\* C24: a raw, unescaped LF or CR inside a string is an error for both kinds
\* of quotes: whatever escapes stand elsewhere in the string, the parse fails
\* with UnexpectedChar and returns no string.
C24_RawBreak ==
    IsRawBreak
        => /\ ~result.ok
           /\ result.err.kind = "UnexpectedChar"
           /\ result.err.at = BreakAt

\* a carriage return after an escape, between single quotes
C24_Witness ==
    /\ IsRawBreak
    /\ text = Bytes(<<"'", "\\", "n", "\r", "b", "'">>)
    /\ result = Err(UnexpectedChar(bCR, 3))

-----------------------------------------------------------------------------
(* Insignificant characters *)

IsLeadCase == mode = "text" /\ parts.class = "lead" /\ phase = "parsed"

\* the value of the text, an array around it when the case has one
LeadValue ==
    IF parts.post = <<bRBRACKET>> THEN Array(<<Number(Number_Int(FALSE, <<1>>))>>)
    ELSE Number(Number_Int(FALSE, <<1>>))

LeadSkipped == result = Ok(LeadValue, Len(text))

LeadRefused == result = Err(UnexpectedChar(parts.piece[1], parts.lead_at))

\* C25: skip_whitespace_and_comments consumes ASCII whitespace, U+00A0, U+2028,
\* U+2029, line comments and block comments, and no other code point beyond
\* ASCII: any other code point in front of a value, U+2014 or U+200B for one,
\* stays and makes parse_value fail with UnexpectedChar. A block comment that
\* is not closed consumes the rest of the input without error.
C25_Insignificant ==
    IsLeadCase
        => /\ parts.kind = "named" => LeadSkipped
           /\ parts.kind \in {"general", "other"} => LeadRefused
           /\ parts.kind = "open" => result = Err(UnexpectedEof)

\* every code point of U+2000..U+202F is skipped with the named ones; vertical
\* tab, form feed and the code points outside that block are refused
C25_GeneralPunctuation ==
    IsLeadCase
        => /\ parts.kind \in {"named", "general"} => LeadSkipped
           /\ parts.kind \in {"ascii", "other"} => LeadRefused
           /\ parts.kind = "open" => result = Err(UnexpectedEof)

-----------------------------------------------------------------------------
(* Unquoted object keys *)

IsBareKeyCase == mode = "text" /\ parts.class = "barekey" /\ phase = "parsed"

\* the object with the one key made of the code points up to the stop
BareKeyObject ==
    Object(<< <<parts.first \o parts.cont, Number(Number_Int(FALSE, <<1>>))>> >>)

\* the key is the consumed code points and what follows it met the ':' check
BareKeyTaken ==
    IF parts.stopkind = "colon" THEN result = Ok(BareKeyObject, Len(text))
    ELSE result = Err(Expected(bCOLON, parts.stop[1]))

\* C26 as stated: a bare key is accepted when its first code point is
\* alphabetic, '_', '$' or any code point beyond ASCII; it goes on over
\* alphabetic code points, '_', '$', digits, U+200C and U+200D; the key is the
\* consumed code points, the first code point outside the set is left for the
\* ':' check, and a first code point outside the start set is UnexpectedChar.
C26_Original ==
    IsBareKeyCase
        => IF parts.firstkind = "ascii"
           THEN result = Err(UnexpectedChar(parts.first[1], 1))
           ELSE BareKeyTaken

\* C26: a bare key is accepted when its first code point is alphabetic, '_' or
\* '$'; a first code point beyond ASCII that is not alphabetic is refused with
\* UnexpectedChar like an ASCII one outside the start set. The key goes on over
\* alphabetic code points, '_', '$', digits, U+200C and U+200D, it is the
\* consumed code points, and the first code point outside the set is left for
\* the ':' check.
C26_BareKeys ==
    IsBareKeyCase
        => CASE parts.firstkind = "start" -> BareKeyTaken
             [] parts.firstkind = "ascii" -> result = Err(UnexpectedChar(parts.first[1], 1))
             [] OTHER -> result = Err(UnexpectedChar(decode_utf8_char(parts.first, 0).val,
                                                     1 + Len(parts.first)))

C26_Witness ==
    /\ IsBareKeyCase
    /\ parts.firstkind = "start"
    /\ parts.first[1] >= 128
    /\ Len(parts.cont) > 2
    /\ parts.stop = <<194, 160>>
    /\ result = Ok(BareKeyObject, Len(text))

-----------------------------------------------------------------------------
(* MapSerializer *)

MaxCalls == 4       \* most serialize_key / serialize_value calls on one MapSerializer

\* Ok(()) and Ok(v) of a call on a serializer
OkUnit == [ok |-> TRUE]
SerOk(v) == [ok |-> TRUE, val |-> v]

\* ValueSerializer::serialize_map: an empty map and no pending key (an Option
\* is a sequence of at most one element)
serialize_map == [map |-> <<>>, pending_key |-> <<>>]

\* impl Display for Value, for the scalar Values a key is drawn from
Value_Display(v) ==
    CASE v.t = "Null" -> Bytes(<<"n", "u", "l", "l">>)
      [] v.t = "Bool" -> IF v.b THEN Bytes(<<"t", "r", "u", "e">>)
                         ELSE Bytes(<<"f", "a", "l", "s", "e">>)
      [] v.t = "Number" -> DisplayNumber(v.n)

\* MapSerializer::serialize_key; k is k.serialize(ValueSerializer)
MapSerializer_serialize_key(self, k) ==
    IF ~k.ok THEN [self |-> self, ret |-> k]
    ELSE [self |-> [self EXCEPT !.pending_key =
                        << IF k.val.t = "String" THEN k.val.s ELSE Value_Display(k.val) >>],
          ret |-> OkUnit]

\* serialize_value that reads the pending key and leaves it in place
MapSerializer_serialize_value_KeepKey(self, v) ==
    IF self.pending_key = <<>>
    THEN [self |-> self, ret |-> Err(Custom("value without key"))]
    ELSE IF ~v.ok THEN [self |-> self, ret |-> v]
    ELSE [self |-> [self EXCEPT !.map = MapInsert(self.map, self.pending_key[1], v.val)],
          ret |-> OkUnit]

\* MapSerializer::serialize_value; v is v.serialize(ValueSerializer), which
\* runs after pending_key.take()
MapSerializer_serialize_value(self, v) ==
    IF self.pending_key = <<>>
    THEN [self |-> self, ret |-> Err(Custom("value without key"))]
    ELSE IF ~v.ok THEN [self |-> [self EXCEPT !.pending_key = <<>>], ret |-> v]
    ELSE [self |-> [map |-> MapInsert(self.map, self.pending_key[1], v.val),
                    pending_key |-> <<>>],
          ret |-> OkUnit]

\* MapSerializer::end
MapSerializer_end(self) == SerOk(Object(self.map))

\* what a Serialize implementation hands back for a key and for a value: a
\* Value, or the error of an implementation that fails (a Path that is not
\* UTF-8, for one)
SerializeFails == Err(Custom("path contains invalid UTF-8 characters"))

KeyInputs ==
    { SerOk(String(Bytes(<<"a">>))), SerOk(String(Bytes(<<"b">>))), SerOk(String(Bytes(<<"1">>))),
      SerOk(Number(Number_Int(FALSE, <<1>>))), SerializeFails }

ValueInputs ==
    { SerOk(Number(Number_Int(FALSE, <<1>>))), SerOk(Number(Number_Int(FALSE, <<2>>))),
      SerializeFails }

Call(op, arg, r) == [op |-> op, arg |-> arg, ret |-> r.ret, self |-> r.self]

\* a caller hands the serializer a key
MapSerializeKey ==
    /\ mode = "map"
    /\ phase = "open"
    /\ Len(calls) < MaxCalls
    /\ \E k \in KeyInputs :
          /\ serializer' = MapSerializer_serialize_key(serializer, k).self
          /\ calls' = Append(calls, Call("key", k, MapSerializer_serialize_key(serializer, k)))
    /\ UNCHANGED <<mode, phase, value, text, parts, result, text2, typed, other,
                   overflow_checks, frames, parser_pos>>

\* a caller hands the serializer a value
MapSerializeValue ==
    /\ mode = "map"
    /\ phase = "open"
    /\ Len(calls) < MaxCalls
    /\ \E v \in ValueInputs :
          /\ serializer' = MapSerializer_serialize_value(serializer, v).self
          /\ calls' = Append(calls, Call("value", v, MapSerializer_serialize_value(serializer, v)))
    /\ UNCHANGED <<mode, phase, value, text, parts, result, text2, typed, other,
                   overflow_checks, frames, parser_pos>>

\* a caller ends the map
MapEnd ==
    /\ mode = "map"
    /\ phase = "open"
    /\ result' = MapSerializer_end(serializer)
    /\ phase' = "ended"
    /\ UNCHANGED <<mode, value, text, parts, text2, typed, other, overflow_checks, frames,
                   serializer, calls, parser_pos>>

InitMap ==
    /\ mode = "map"
    /\ phase = "open"
    /\ serializer = serialize_map
    /\ calls = <<>>
    /\ parser_pos = 0
    /\ value = Null
    /\ text = NoText
    /\ parts = [class |-> "map"]
    /\ result = NoResult
    /\ text2 = NoText
    /\ typed = Null
    /\ other = Null
    /\ overflow_checks \in {FALSE}
    /\ frames = <<>>

NextMap == MapSerializeKey \/ MapSerializeValue \/ MapEnd

SpecMap == InitMap /\ [][NextMap]_vars

-----------------------------------------------------------------------------
(* Map encoder key/value protocol *)

\* the serializer before call i
SelfBefore(i) == IF i = 1 THEN serialize_map ELSE calls[i - 1].self

\* the key that is pending before call i, read from the calls alone: the key
\* of the last serialize_key that returned Ok, unless a serialize_value came
\* after it
RECURSIVE PendingBefore(_)
PendingBefore(i) ==
    IF i = 1 THEN <<>>
    ELSE LET c == calls[i - 1] IN
         IF c.op = "value" THEN <<>>
         ELSE IF c.ret.ok
         THEN << IF c.arg.val.t = "String" THEN c.arg.val.s ELSE DisplayNumber(c.arg.val.n) >>
         ELSE PendingBefore(i - 1)

ValueWithoutKey(i) ==
    (calls[i].op = "value" /\ PendingBefore(i) = <<>>)
        => /\ calls[i].ret = Err(Custom("value without key"))
           /\ calls[i].self.map = SelfBefore(i).map

\* the entries of the serialize_value calls that returned Ok, in call order
RECURSIVE InsertedEntries(_)
InsertedEntries(n) ==
    IF n = 0 THEN <<>>
    ELSE IF calls[n].op = "value" /\ calls[n].ret.ok
    THEN Append(InsertedEntries(n - 1), <<PendingBefore(n)[1], calls[n].arg.val>>)
    ELSE InsertedEntries(n - 1)

\* C27 as stated: serialize_value with no pending key returns
\* Err(Custom("value without key")) and leaves the map as it is; a
\* serialize_value that follows a serialize_key inserts exactly one entry
\* pairing that key with that value and clears the pending key; end() returns
\* an Object holding exactly the inserted entries in insertion order.
C27_Original ==
    mode = "map"
        => /\ \A i \in 1..Len(calls) :
                /\ ValueWithoutKey(i)
                /\ (calls[i].op = "value" /\ calls[i].arg.ok /\ PendingBefore(i) # <<>>)
                      => /\ calls[i].ret = OkUnit
                         /\ calls[i].self.map
                                = Append(SelfBefore(i).map,
                                         <<PendingBefore(i)[1], calls[i].arg.val>>)
                         /\ calls[i].self.pending_key = <<>>
           /\ phase = "ended" => result = SerOk(Object(InsertedEntries(Len(calls))))

\* the last value inserted under key k among the first n calls
LastValueOf(k, n) ==
    LET e == InsertedEntries(n)
    IN e[CHOOSE j \in 1..Len(e) : e[j][1] = k /\ \A l \in (j + 1)..Len(e) : e[l][1] # k][2]

\* the first place of key k among the inserted entries
FirstPlaceOf(k, e) == CHOOSE j \in 1..Len(e) : e[j][1] = k /\ \A l \in 1..(j - 1) : e[l][1] # k

\* C27: serialize_value with no pending key returns
\* Err(Custom("value without key")) and leaves the map as it is; a
\* serialize_value with a pending key clears the pending key, and when its
\* value serializes it pairs that key with that value: a key that is not in
\* the map is added as one entry at the end, a key that is in the map keeps
\* its place and gets the new value; when the value fails to serialize the map
\* stays as it is. end() returns an Object holding one entry for each key
\* inserted, with the last value inserted under it, in the order in which the
\* keys were first inserted.
C27_MapProtocol ==
    mode = "map"
        => /\ \A i \in 1..Len(calls) :
                /\ ValueWithoutKey(i)
                /\ (calls[i].op = "value" /\ PendingBefore(i) # <<>>)
                      => LET k == PendingBefore(i)[1]
                             before == SelfBefore(i).map
                             after == calls[i].self.map
                         IN /\ calls[i].self.pending_key = <<>>
                            /\ ~calls[i].arg.ok => (calls[i].ret = calls[i].arg /\ after = before)
                            /\ calls[i].arg.ok =>
                                /\ calls[i].ret = OkUnit
                                /\ IF \E j \in 1..Len(before) : before[j][1] = k
                                   THEN /\ Len(after) = Len(before)
                                        /\ \A j \in 1..Len(before) :
                                              after[j] = IF before[j][1] = k
                                                         THEN <<k, calls[i].arg.val>>
                                                         ELSE before[j]
                                   ELSE after = Append(before, <<k, calls[i].arg.val>>)
           /\ phase = "ended"
                => LET e == InsertedEntries(Len(calls))
                       m == result.val.m
                   IN /\ result.ok /\ result.val.t = "Object"
                      /\ \A j, l \in 1..Len(m) : m[j][1] = m[l][1] => j = l
                      /\ {m[j][1] : j \in 1..Len(m)} = {e[j][1] : j \in 1..Len(e)}
                      /\ \A j \in 1..Len(m) : m[j][2] = LastValueOf(m[j][1], Len(calls))
                      /\ \A j, l \in 1..Len(m) :
                            j < l => FirstPlaceOf(m[j][1], e) < FirstPlaceOf(m[l][1], e)

\* a key written twice with a value between: the map holds it once, in its
\* first place, with the second value
C27_Witness ==
    /\ mode = "map" /\ phase = "ended"
    /\ Len(result.val.m) < Len(InsertedEntries(Len(calls)))
    /\ result.val.m[1][2] # InsertedEntries(Len(calls))[1][2]

-----------------------------------------------------------------------------
(* Parser, step by step: one step is one iteration of a loop of the parser, or
   the straight-line code between two loops. frames holds the activations,
   result the Result the last callee returned (a String is returned in a
   Value::String, to parse_key as to parse_value). *)

SkipFrame(at) == [fn |-> "skip_whitespace_and_comments", at |-> at]
ParseValueFrame(stage, start) == [fn |-> "parse_value", stage |-> stage, start |-> start]
StringFrame(path, start, quote, has_escape, out) ==
    [fn |-> "parse_string_contents", path |-> path, start |-> start, quote |-> quote,
     has_escape |-> has_escape, out |-> out]
NumberFrame(stage, start, digits, negative, is_float) ==
    [fn |-> "parse_number", stage |-> stage, start |-> start, digits |-> digits,
     negative |-> negative, is_float |-> is_float]
ArrayFrame(stage, arr, last) ==
    [fn |-> "parse_array", stage |-> stage, arr |-> arr, last |-> last]
ObjectFrame(stage, map, key, last) ==
    [fn |-> "parse_object", stage |-> stage, map |-> map, key |-> key, last |-> last]
IdentifierFrame(start, s) == [fn |-> "parse_identifier", start |-> start, s |-> s]
TopLevelFrame(stage) == [fn |-> "json5::parse_value", stage |-> stage]

\* the activation on top is replaced by fs
Replace(fs) == Pop \o fs

Running(fn) == mode = "parse" /\ phase = "running" /\ frames # <<>> /\ Top.fn = fn

\* an error leaves every activation through its ? operator
Fail(r) ==
    /\ result' = r
    /\ frames' = <<>>
    /\ phase' = "returned"
    /\ UNCHANGED parser_pos

ParserRest ==
    <<mode, value, text, parts, text2, typed, other, overflow_checks, serializer, calls>>

\* one iteration of the while-let loop of skip_whitespace_and_comments: the
\* cursor after it, None when the loop breaks
whitespace_step(input, pos) ==
    LET b == peek(input, pos) IN
    IF b = bSP \/ b = bTAB \/ b = bLF \/ b = bCR THEN pos + 1
    ELSE IF b = 194 THEN (IF peek(input, pos + 1) = 160 THEN pos + 2 ELSE None)
    ELSE IF b = 226
    THEN LET b1 == peek(input, pos + 1)
             b2 == peek(input, pos + 2)
         IN IF b1 # None /\ b2 # None /\ b1 = 128
               /\ (b2 = 168 \/ b2 = 169 \/ (b2 >= 128 /\ b2 <= 175))
            THEN pos + 3
            ELSE None
    ELSE None

\* one iteration of the loop over a // comment: the cursor after it, None when
\* the loop ends
line_comment_step(input, pos) ==
    LET b == peek(input, pos) IN
    IF b = None \/ b = bLF \/ b = bCR THEN None
    ELSE IF b = 226 /\ peek(input, pos + 1) = 128
            /\ (peek(input, pos + 2) = 168 \/ peek(input, pos + 2) = 169)
    THEN None
    ELSE pos + 1

\* one iteration of the loop over a /* comment: the cursor after it and
\* whether the loop ends
block_comment_step(input, pos) ==
    IF peek(input, pos) = bSTAR /\ peek2(input, pos) = bSLASH
    THEN [pos |-> pos + 2, break |-> TRUE]
    ELSE IF peek(input, pos) = None THEN [pos |-> pos, break |-> TRUE]
    ELSE [pos |-> pos + 1, break |-> FALSE]

\* the while-let loop; when it breaks, the match on (peek(), peek2()) enters a
\* comment or leaves the function
SkipWhitespace ==
    /\ Running("skip_whitespace_and_comments")
    /\ Top.at = "whitespace"
    /\ IF whitespace_step(text, parser_pos) # None
       THEN /\ parser_pos' = whitespace_step(text, parser_pos)
            /\ UNCHANGED frames
       ELSE IF peek(text, parser_pos) = bSLASH /\ peek2(text, parser_pos) = bSLASH
       THEN /\ parser_pos' = parser_pos + 2
            /\ frames' = Replace(<<SkipFrame("line_comment")>>)
       ELSE IF peek(text, parser_pos) = bSLASH /\ peek2(text, parser_pos) = bSTAR
       THEN /\ parser_pos' = parser_pos + 2
            /\ frames' = Replace(<<SkipFrame("block_comment")>>)
       ELSE /\ frames' = Pop
            /\ UNCHANGED parser_pos
    /\ UNCHANGED <<phase, result>>
    /\ UNCHANGED ParserRest

SkipLineComment ==
    /\ Running("skip_whitespace_and_comments")
    /\ Top.at = "line_comment"
    /\ IF line_comment_step(text, parser_pos) # None
       THEN /\ parser_pos' = line_comment_step(text, parser_pos)
            /\ UNCHANGED frames
       ELSE /\ frames' = Replace(<<SkipFrame("whitespace")>>)
            /\ UNCHANGED parser_pos
    /\ UNCHANGED <<phase, result>>
    /\ UNCHANGED ParserRest

SkipBlockComment ==
    /\ Running("skip_whitespace_and_comments")
    /\ Top.at = "block_comment"
    /\ parser_pos' = block_comment_step(text, parser_pos).pos
    /\ frames' = IF block_comment_step(text, parser_pos).break
                 THEN Replace(<<SkipFrame("whitespace")>>)
                 ELSE frames
    /\ UNCHANGED <<phase, result>>
    /\ UNCHANGED ParserRest

\* the straight-line code of parse_number after a digit loop: the loop that
\* comes next ("frac", "exp") or the end of the scan, the cursor, is_float
exponent_check(input, pos, is_float) ==
    IF peek(input, pos) = Ch("e") \/ peek(input, pos) = Ch("E")
    THEN [stage |-> "exp",
          pos |-> IF peek(input, pos + 1) = bPLUS \/ peek(input, pos + 1) = bMINUS
                  THEN pos + 2 ELSE pos + 1,
          is_float |-> TRUE]
    ELSE [stage |-> "end", pos |-> pos, is_float |-> is_float]

number_after(stage, input, pos, is_float) ==
    IF stage = "int"
    THEN IF peek(input, pos) = bDOT THEN [stage |-> "frac", pos |-> pos + 1, is_float |-> TRUE]
         ELSE exponent_check(input, pos, is_float)
    ELSE IF stage = "frac" THEN exponent_check(input, pos, is_float)
    ELSE [stage |-> "end", pos |-> pos, is_float |-> is_float]

\* the head of parse_number: the sign, the 0x prefix, a lone 0 as integer part
number_entry(input, pos) ==
    LET negative == peek(input, pos) = bMINUS
        p == IF negative \/ peek(input, pos) = bPLUS THEN pos + 1 ELSE pos
    IN IF peek(input, p) = b0 /\ (peek2(input, p) = Ch("x") \/ peek2(input, p) = Ch("X"))
       THEN [pos |-> p + 2, frame |-> NumberFrame("hex", pos, p + 2, negative, FALSE)]
       ELSE IF peek(input, p) = b0
       THEN LET na == number_after("int", input, p + 1, FALSE)
            IN [pos |-> na.pos, frame |-> NumberFrame(na.stage, pos, p, negative, na.is_float)]
       ELSE [pos |-> p, frame |-> NumberFrame("int", pos, p, negative, FALSE)]

\* the arms of the match in parse_value that call parse_number
StartsNumber(input, pos) ==
    LET b == peek(input, pos)
    IN \/ (b = bMINUS \/ b = bPLUS) /\ ~SliceIs(input, pos + 1, bytesInfinity)
       \/ b # None /\ (IsDigit(b) \/ b = bDOT)

\* Parser::parse_value once skip_whitespace_and_comments has returned: the
\* match on peek(), and the return to the caller when the callee has returned
StepParseValue ==
    /\ Running("parse_value")
    /\ IF Top.stage = "ret"
       THEN /\ frames' = Pop
            /\ UNCHANGED <<parser_pos, result, phase>>
       ELSE LET b == peek(text, parser_pos)
                ret == ParseValueFrame("ret", Top.start)
            IN IF b = bDQUOTE \/ b = bSQUOTE
               THEN /\ parser_pos' = parser_pos + 1
                    /\ frames' = Replace(<<ret, StringFrame("fast", parser_pos + 1, b, FALSE,
                                                           <<>>)>>)
                    /\ UNCHANGED <<result, phase>>
               ELSE IF b = bLBRACKET
               THEN /\ parser_pos' = parser_pos + 1
                    /\ frames' = Replace(<<ret, ArrayFrame("head", <<>>, None),
                                           SkipFrame("whitespace")>>)
                    /\ UNCHANGED <<result, phase>>
               ELSE IF b = bLBRACE
               THEN /\ parser_pos' = parser_pos + 1
                    /\ frames' = Replace(<<ret, ObjectFrame("head", <<>>, <<>>, None),
                                           SkipFrame("whitespace")>>)
                    /\ UNCHANGED <<result, phase>>
               ELSE IF StartsNumber(text, parser_pos)
               THEN /\ parser_pos' = number_entry(text, parser_pos).pos
                    /\ frames' = Replace(<<ret, number_entry(text, parser_pos).frame>>)
                    /\ UNCHANGED <<result, phase>>
               ELSE IF value_at(text, parser_pos).ok
               THEN /\ result' = value_at(text, parser_pos)
                    /\ parser_pos' = value_at(text, parser_pos).pos
                    /\ frames' = Replace(<<ret>>)
                    /\ UNCHANGED phase
               ELSE Fail(value_at(text, parser_pos))
    /\ UNCHANGED ParserRest

\* the digit loops of parse_number, and the conversion once the scan has ended
StepNumber ==
    /\ Running("parse_number")
    /\ LET b == peek(text, parser_pos)
           r == IF Top.stage = "hex" THEN parse_hex(text, Top.digits, Top.negative)
                ELSE decimal_value(StripUnderscores(SubSeq(text, Top.start + 1, parser_pos)),
                                   parser_pos, Top.is_float, Top.negative)
           na == number_after(Top.stage, text, parser_pos, Top.is_float)
       IN IF Top.stage = "hex" /\ b # None /\ (hex_val(b) # None \/ b = bUNDERSCORE)
          THEN /\ parser_pos' = parser_pos + 1
               /\ UNCHANGED <<frames, result, phase>>
          ELSE IF Top.stage \in {"int", "frac", "exp"} /\ (IsDigit(b) \/ b = bUNDERSCORE)
          THEN /\ parser_pos' = parser_pos + 1
               /\ UNCHANGED <<frames, result, phase>>
          ELSE IF Top.stage \in {"int", "frac", "exp"}
          THEN /\ parser_pos' = na.pos
               /\ frames' = Replace(<<[Top EXCEPT !.stage = na.stage,
                                                  !.is_float = na.is_float]>>)
               /\ UNCHANGED <<result, phase>>
          ELSE IF r.ok
          THEN /\ result' = Ok(r.val, parser_pos)
               /\ frames' = Pop
               /\ UNCHANGED <<parser_pos, phase>>
          ELSE Fail(r)
    /\ UNCHANGED ParserRest

\* the fast path of parse_string_contents: one iteration of its loop; at the
\* closing quote the text is returned, or the cursor goes back to start for
\* the slow path
StepStringFast ==
    /\ Running("parse_string_contents")
    /\ Top.path = "fast"
    /\ LET b == peek(text, parser_pos)
           s == SubSeq(text, Top.start + 1, parser_pos)
       IN IF b = None THEN Fail(Err(UnexpectedEof))
          ELSE IF b = Top.quote
          THEN IF ~Top.has_escape
               THEN /\ result' = Ok(String(s), parser_pos + 1)
                    /\ parser_pos' = parser_pos + 1
                    /\ frames' = Pop
                    /\ UNCHANGED phase
               ELSE /\ parser_pos' = Top.start
                    /\ frames' = Replace(<<[Top EXCEPT !.path = "slow"]>>)
                    /\ UNCHANGED <<result, phase>>
          ELSE IF b = bBACKSLASH
          THEN /\ parser_pos' = parser_pos + 2
               /\ frames' = Replace(<<[Top EXCEPT !.has_escape = TRUE]>>)
               /\ UNCHANGED <<result, phase>>
          ELSE IF (b = bLF \/ b = bCR) /\ Top.quote # bSQUOTE
          THEN Fail(Err(UnexpectedChar(bLF, parser_pos)))
          ELSE IF b < 32 THEN Fail(Err(UnexpectedChar(b, parser_pos)))
          ELSE /\ parser_pos' = parser_pos + 1
               /\ UNCHANGED <<frames, result, phase>>
    /\ UNCHANGED ParserRest

\* the slow path of parse_string_contents: one iteration of its loop
StepStringSlow ==
    /\ Running("parse_string_contents")
    /\ Top.path = "slow"
    /\ LET b == peek(text, parser_pos)
           e == parse_escape(text, parser_pos + 1, Top.out)
           c == decode_utf8_char(text, parser_pos)
       IN IF b = None THEN Fail(Err(UnexpectedEof))
          ELSE IF b = Top.quote
          THEN /\ result' = Ok(String(Top.out), parser_pos + 1)
               /\ parser_pos' = parser_pos + 1
               /\ frames' = Pop
               /\ UNCHANGED phase
          ELSE IF b = bBACKSLASH
          THEN IF e.ok
               THEN /\ parser_pos' = e.pos
                    /\ frames' = Replace(<<[Top EXCEPT !.out = e.val]>>)
                    /\ UNCHANGED <<result, phase>>
               ELSE Fail(e)
          ELSE IF ~c.ok THEN Fail(c)
          ELSE IF c.val = bLF \/ c.val = bCR THEN Fail(Err(UnexpectedChar(c.val, c.pos)))
          ELSE /\ parser_pos' = c.pos
               /\ frames' = Replace(<<[Top EXCEPT !.out = Top.out \o Utf8Encode(c.val)]>>)
               /\ UNCHANGED <<result, phase>>
    /\ UNCHANGED ParserRest

\* the loop of parse_array: "head" is the match on peek() at the top of an
\* iteration, "elem" the return of parse_value, "sep" the match after the
\* element; last is the cursor at the head of the iteration before
StepArray ==
    /\ Running("parse_array")
    /\ LET b == peek(text, parser_pos) IN
       CASE Top.stage = "head" ->
              IF b = None THEN Fail(Err(UnexpectedEof))
              ELSE IF b = bRBRACKET
              THEN /\ result' = Ok(Array(Top.arr), parser_pos + 1)
                   /\ parser_pos' = parser_pos + 1
                   /\ frames' = Pop
                   /\ UNCHANGED phase
              ELSE /\ frames' = Replace(<<[Top EXCEPT !.stage = "elem", !.last = parser_pos],
                                          ParseValueFrame("match", parser_pos),
                                          SkipFrame("whitespace")>>)
                   /\ UNCHANGED <<parser_pos, result, phase>>
         [] Top.stage = "elem" ->
              /\ frames' = Replace(<<[Top EXCEPT !.stage = "sep",
                                                 !.arr = Append(Top.arr, result.val)],
                                     SkipFrame("whitespace")>>)
              /\ UNCHANGED <<parser_pos, result, phase>>
         [] Top.stage = "sep" ->
              IF b = bCOMMA
              THEN /\ parser_pos' = parser_pos + 1
                   /\ frames' = Replace(<<[Top EXCEPT !.stage = "head"], SkipFrame("whitespace")>>)
                   /\ UNCHANGED <<result, phase>>
              ELSE IF b = bRBRACKET
              THEN /\ frames' = Replace(<<[Top EXCEPT !.stage = "head"], SkipFrame("whitespace")>>)
                   /\ UNCHANGED <<parser_pos, result, phase>>
              ELSE IF b = None THEN Fail(Err(UnexpectedEof))
              ELSE Fail(Err(UnexpectedChar(b, parser_pos)))
    /\ UNCHANGED ParserRest

\* the loop of parse_object: "head" is the match on peek() at the top of an
\* iteration and the match of parse_key, "key" the return of the key,
\* "colon" the expect(b':'), "value" the return of parse_value, "sep" the
\* match after the entry
StepObject ==
    /\ Running("parse_object")
    /\ LET b == peek(text, parser_pos)
           c == decode_utf8_char(text, parser_pos)
       IN
       CASE Top.stage = "head" ->
              IF b = None THEN Fail(Err(UnexpectedEof))
              ELSE IF b = bRBRACE
              THEN /\ result' = Ok(Object(Top.map), parser_pos + 1)
                   /\ parser_pos' = parser_pos + 1
                   /\ frames' = Pop
                   /\ UNCHANGED phase
              ELSE IF b = bDQUOTE \/ b = bSQUOTE
              THEN /\ parser_pos' = parser_pos + 1
                   /\ frames' = Replace(<<[Top EXCEPT !.stage = "key", !.last = parser_pos],
                                          StringFrame("fast", parser_pos + 1, b, FALSE, <<>>)>>)
                   /\ UNCHANGED <<result, phase>>
              ELSE IF is_id_start(b) \/ b >= 128
              THEN IF ~c.ok THEN Fail(c)
                   ELSE IF ~is_id_start_char(c.val) THEN Fail(Err(UnexpectedChar(c.val, c.pos)))
                   ELSE /\ parser_pos' = c.pos
                        /\ frames' = Replace(<<[Top EXCEPT !.stage = "key",
                                                           !.last = parser_pos],
                                               IdentifierFrame(parser_pos, Utf8Encode(c.val))>>)
                        /\ UNCHANGED <<result, phase>>
              ELSE Fail(Err(UnexpectedChar(b, parser_pos)))
         [] Top.stage = "key" ->
              /\ frames' = Replace(<<[Top EXCEPT !.stage = "colon", !.key = result.val.s],
                                     SkipFrame("whitespace")>>)
              /\ UNCHANGED <<parser_pos, result, phase>>
         [] Top.stage = "colon" ->
              IF expect(text, parser_pos, bCOLON).ok
              THEN /\ parser_pos' = parser_pos + 1
                   /\ frames' = Replace(<<[Top EXCEPT !.stage = "value"],
                                          ParseValueFrame("match", parser_pos + 1),
                                          SkipFrame("whitespace")>>)
                   /\ UNCHANGED <<result, phase>>
              ELSE Fail(expect(text, parser_pos, bCOLON))
         [] Top.stage = "value" ->
              /\ frames' = Replace(<<[Top EXCEPT !.stage = "sep",
                                                 !.map = MapInsert(Top.map, Top.key, result.val)],
                                     SkipFrame("whitespace")>>)
              /\ UNCHANGED <<parser_pos, result, phase>>
         [] Top.stage = "sep" ->
              IF b = bCOMMA
              THEN /\ parser_pos' = parser_pos + 1
                   /\ frames' = Replace(<<[Top EXCEPT !.stage = "head"], SkipFrame("whitespace")>>)
                   /\ UNCHANGED <<result, phase>>
              ELSE IF b = bRBRACE
              THEN /\ frames' = Replace(<<[Top EXCEPT !.stage = "head"], SkipFrame("whitespace")>>)
                   /\ UNCHANGED <<parser_pos, result, phase>>
              ELSE IF b = None THEN Fail(Err(UnexpectedEof))
              ELSE Fail(Err(UnexpectedChar(b, parser_pos)))
    /\ UNCHANGED ParserRest

\* a put-back that takes four bytes whatever the code point
put_back_FourBytes(pos, ch) == pos - 4

\* parse_identifier puts back the code point that does not continue the
\* identifier: self.pos -= ch.len_utf8()
put_back(pos, ch) == pos - Len(Utf8Encode(ch))

\* the loop of parse_identifier after the first code point: one iteration
StepIdentifier ==
    /\ Running("parse_identifier")
    /\ LET b == peek(text, parser_pos)
           c == decode_utf8_char(text, parser_pos)
       IN IF b # None /\ is_id_continue(b)
          THEN /\ parser_pos' = parser_pos + 1
               /\ frames' = Replace(<<[Top EXCEPT !.s = Append(Top.s, b)]>>)
               /\ UNCHANGED <<result, phase>>
          ELSE IF b # None /\ b >= 128 /\ ~c.ok THEN Fail(c)
          ELSE IF b # None /\ b >= 128 /\ is_id_continue_char(c.val)
          THEN /\ parser_pos' = c.pos
               /\ frames' = Replace(<<[Top EXCEPT !.s = Top.s \o Utf8Encode(c.val)]>>)
               /\ UNCHANGED <<result, phase>>
          ELSE /\ parser_pos' = IF b # None /\ b >= 128 THEN put_back(c.pos, c.val)
                                ELSE parser_pos
               /\ result' = Ok(String(Top.s), parser_pos')
               /\ frames' = Pop
               /\ UNCHANGED phase
    /\ UNCHANGED ParserRest

\* json5::parse_value (mod.rs) around Parser::parse_value: "value" is the
\* return of the value, "trailing" the check of remaining()
StepTopLevel ==
    /\ Running("json5::parse_value")
    /\ IF Top.stage = "value"
       THEN /\ frames' = <<TopLevelFrame("trailing"), SkipFrame("whitespace")>>
            /\ UNCHANGED <<parser_pos, result, phase>>
       ELSE IF remaining(text, parser_pos) > 0 THEN Fail(Err(TrailingData(parser_pos)))
       ELSE /\ result' = Ok(result.val, parser_pos)
            /\ frames' = <<>>
            /\ phase' = "returned"
            /\ UNCHANGED parser_pos
    /\ UNCHANGED ParserRest

\* texts that nest containers in containers
NestCases ==
    { [class |-> "nest", pre |-> <<>>, core |-> b, post |-> <<>>]
      : b \in { Bytes(<<"[", "[", "[", "1", "]", "]", "]">>),
                Bytes(<<"{", "a", ":", "{", "b", ":", "[", "{", "}", ",", "]", "}", "}">>),
                Bytes(<<"[", "[", "]", ",", "[", "[", "]", "]", ",", "{", "}", "]">>),
                Bytes(<<"[", "[", "[", "[", "[", "[">>),
                Bytes(<<"{", "a", ":", "[", "{", "a", ":", "[">>) } }

\* texts that parse, with a string that takes the slow path, a bare key that
\* ends at a code point beyond ASCII, and whitespace or a comment at the end
RewindCases ==
    { [class |-> "rewind", pre |-> <<>>, core |-> b, post |-> <<>>]
      : b \in { <<bLBRACE>> \o Bytes(<<"a">>) \o <<194, 160, bCOLON, bSQUOTE, bBACKSLASH>>
                   \o Bytes(<<"x", "4", "1">>) \o <<bSQUOTE, bRBRACE, 226, 128, 168>>,
                <<bLBRACE, 195, 169, 226, 128, 169, bCOLON, bDQUOTE>> \o Bytes(<<"a">>)
                   \o <<bBACKSLASH>> \o Bytes(<<"n">>) \o <<bDQUOTE, bRBRACE, 194, 160>>,
                <<bDQUOTE, bBACKSLASH, bDQUOTE, bDQUOTE, bSLASH, bSLASH>>,
                <<bLBRACKET, bSQUOTE, bBACKSLASH, bLF, bSQUOTE, bRBRACKET, bSLASH, bSTAR>> } }

\* the texts the parser is stepped through
ParseCases ==
    { c \in TextCases :
        \/ c.class \in {"lead", "sep", "sep_example", "hex", "special", "escape"}
        \/ c.class = "decimal" /\ Len(c.core) < 8
        \/ c.class = "barekey" /\ c.first \in {Bytes(<<"a">>), <<195, 169>>, <<226, 130, 172>>}
        \/ c.class = "rawbreak" /\ c.pre = <<>> }
    \cup NestCases \cup RewindCases

InitParse ==
    /\ mode = "parse"
    /\ phase = "running"
    /\ \E c \in ParseCases :
          /\ parts = c
          /\ text = c.pre \o c.core \o c.post
    /\ frames = <<TopLevelFrame("value"), ParseValueFrame("match", 0), SkipFrame("whitespace")>>
    /\ parser_pos = 0
    /\ result = NoResult
    /\ value = Null
    /\ text2 = NoText
    /\ typed = Null
    /\ other = Null
    /\ overflow_checks \in (IF parts.class = "hex" THEN BOOLEAN ELSE {FALSE})
    /\ serializer = NoSerializer
    /\ calls = <<>>

NextParse ==
    \/ SkipWhitespace \/ SkipLineComment \/ SkipBlockComment
    \/ StepParseValue \/ StepNumber \/ StepStringFast \/ StepStringSlow
    \/ StepArray \/ StepObject \/ StepIdentifier \/ StepTopLevel

SpecParse == InitParse /\ [][NextParse]_vars

\* the parser is one sequential program: it goes on as long as it has a step
SpecParseLive == SpecParse /\ WF_vars(NextParse)

\* the steps arrive at what the functions return
StepsAgree == (mode = "parse" /\ phase = "returned") => result = parse_value(text)

-----------------------------------------------------------------------------
(* Termination *)

ParserReturned == mode = "parse" /\ phase = "returned"

\* the call ended in a panic: neither a Value nor an error came back
Panicked == ParserReturned /\ ~result.ok /\ result.err.kind = "panic"

\* the step is one more iteration of the scanning loop on top: the same
\* activation in the same loop before and after
SameLoop ==
    /\ frames # <<>> /\ frames' # <<>>
    /\ Len(frames') = Len(frames)
    /\ Top.fn \in {"skip_whitespace_and_comments", "parse_string_contents", "parse_number",
                   "parse_identifier"}
    /\ frames'[Len(frames')].fn = Top.fn
    /\ Top.fn = "skip_whitespace_and_comments" => frames'[Len(frames')].at = Top.at
    /\ Top.fn = "parse_string_contents" => frames'[Len(frames')].path = Top.path
    /\ Top.fn = "parse_number" => (frames'[Len(frames')].stage = Top.stage /\ Top.stage # "end")

\* an element loop is at the head of an iteration that is not its first
NextIteration ==
    /\ mode = "parse" /\ frames # <<>>
    /\ Top.fn \in {"parse_array", "parse_object"}
    /\ Top.stage = "head"
    /\ Top.last # None

\* C28: on every finite input parse_value finishes and returns a Value or an
\* error; every iteration of the whitespace and comment loops, the string
\* loops, the digit loops and the element loops of arrays and objects moves
\* the cursor forward or leaves the loop.
C28_Termination ==
    /\ <>(ParserReturned /\ ~Panicked)
    /\ [][(mode = "parse" /\ SameLoop) => parser_pos' > parser_pos]_vars
    /\ [](NextIteration => parser_pos > Top.last)

\* no text makes the parser run forever: every call comes to its end, by a
\* Value, an error or a panic
C28_NoEndlessLoop == <>ParserReturned

\* every iteration of a loop moves the cursor forward or leaves the loop
C28_Progress ==
    /\ [][(mode = "parse" /\ SameLoop) => parser_pos' > parser_pos]_vars
    /\ [](NextIteration => parser_pos > Top.last)


-----------------------------------------------------------------------------
(* Cursor bound *)

\* Parser::parse_value is about to return Ok to its caller
ParseValueReturns == Running("parse_value") /\ Top.stage = "ret"

\* the step is the return of skip_whitespace_and_comments
SkipReturns == Running("skip_whitespace_and_comments") /\ Len(frames') < Len(frames)

\* json5::parse_value is at its check of remaining()
TrailingCheck == Running("json5::parse_value") /\ Top.stage = "trailing"

\* a step of a string scan or of an identifier scan that is not an error
TokenStep ==
    /\ mode = "parse" /\ phase = "running" /\ frames # <<>>
    /\ Top.fn \in {"parse_string_contents", "parse_identifier"}
    /\ phase' = "running"

\* where the token on top began: the opening quote of a string, the first
\* byte of an identifier
TokenStart == IF Top.fn = "parse_string_contents" THEN Top.start - 1 ELSE Top.start

\* C29: when Parser::parse_value or skip_whitespace_and_comments returns
\* successfully the cursor is at most the length of the input, so remaining()
\* does not underflow in the trailing-data check of json5::parse_value; a
\* successful parse_value never ends with the cursor lower than where it
\* began, and neither the rewind to the slow path of a string nor the put-back
\* of an identifier moves the cursor before the start of the token.
C29_CursorBound ==
    /\ [](ParseValueReturns => (Top.start <= parser_pos /\ parser_pos <= Len(text)))
    /\ [][SkipReturns => parser_pos' <= Len(text)]_vars
    /\ [](TrailingCheck => remaining(text, parser_pos) >= 0)
    /\ [][TokenStep => parser_pos' >= TokenStart]_vars

\* an object whose bare key ended at a put-back and whose string value took
\* the slow path is returned by parse_value, whitespace still ahead
C29_Witness ==
    /\ ParseValueReturns
    /\ Len(frames) = 2
    /\ parts.class = "rewind"
    /\ result.ok /\ result.val.t = "Object"
    /\ parser_pos > Top.start /\ parser_pos < Len(text)


-----------------------------------------------------------------------------
(* The two emitters *)

\* CompactFormatter::new(quote_keys, None) with the quote_keys of fm
CompactOf(fm) ==
    [class |-> fm.class, formatter |-> "Compact", quote_keys |-> fm.quote_keys,
     max_depth |-> MAX_DEPTH]

\* the Pretty text of the Value has been written with an indent of white space
PrettyWritten == mode = "emitters" /\ phase = "text"

\* the Pretty text and the Compact text of the Value both parse, to equal Values
BothParseEqual ==
    LET c == serialize_with_formatter(value, CompactOf(parts))
        p == parse_value(text)
    IN /\ c.ok
       /\ p.ok
       /\ parse_value(c.val).ok
       /\ ValueEq(p.val, parse_value(c.val).val)

\* the Pretty text holds the indent: the Value is an array or an object that
\* is not empty
IndentWritten ==
    \/ value.t = "Array" /\ value.a # <<>>
    \/ value.t = "Object" /\ value.m # <<>>

\* C30: for every Value within the depth limit, every indent string made of
\* white space and either setting of quote_keys, the Pretty text and the
\* Compact text of the Value both parse, and they parse to equal Values.
C30_SameValue == PrettyWritten => BothParseEqual

\* with an indent of characters that skip_whitespace_and_comments consumes the
\* two texts parse to equal Values; with an indent of other white space the
\* Compact text parses and the Pretty text, where it holds the indent, is
\* refused with UnexpectedChar
C30_SkippedIndent ==
    PrettyWritten =>
        IF parts.indent_kind = "skipped" \/ ~IndentWritten
        THEN BothParseEqual
        ELSE /\ parse_value(serialize_with_formatter(value, CompactOf(parts)).val).ok
             /\ ~parse_value(text).ok
             /\ parse_value(text).err.kind = "UnexpectedChar"

=============================================================================
